---------------------------- MODULE Spec2Model ----------------------------
(***************************************************************************)
(* A model of the bookstore REST API (Express + Prisma on PostgreSQL).     *)
(*                                                                         *)
(* The state is the database (the User, Genre, Book, Order and OrderItem   *)
(* tables), the requests in flight (one slot per request: the handler's    *)
(* position and its local variables) and the HTTP response that the last   *)
(* step sent.  Every handler is cut at its `await`s on the database: one   *)
(* action per database round trip, with the synchronous code that follows  *)
(* it.  Steps of different requests interleave freely.                     *)
(*                                                                         *)
(* A JSON body is a record whose DOMAIN holds the keys that are present:   *)
(* a key that is absent is JavaScript's `undefined`.                       *)
(***************************************************************************)
EXTENDS Integers, Sequences, FiniteSets, TLC

VARIABLES
    users,       \* User table:      id -> row
    genres,      \* Genre table:     id -> row
    books,       \* Book table:      id -> row
    orders,      \* Order table:     id -> row
    orderItems,  \* OrderItem table: the rows in insertion order
    slots,       \* request slot -> the handler's position and locals
    response,    \* the response sent by the last step, or NoResponse
    requests     \* request slot -> the Authorization header and req.user of
                 \* its request on a guarded route, or NoRequest

db   == <<users, genres, books, orders, orderItems>>
vars == <<users, genres, books, orders, orderItems, slots, response, requests>>

---------------------------------------------------------------------------
(* Bounds of the model *)

\* Largest quantity of a line item in a createTransaction request.
MaxQuantity == 2
\* Largest number of line items in a createTransaction request.
MaxItems == 2

\* The requests of one run: each slot carries one request, and the slots are
\* taken in this order.
ProcSeq == <<"p1", "p2">>
Procs == {ProcSeq[i] : i \in DOMAIN ProcSeq}

---------------------------------------------------------------------------
(* Values *)

Null == "null"          \* deleted_at of a row that is not soft-deleted
Timestamp == "ts"       \* new Date(): only its being non-null is ever read
NoResponse == [p |-> "none", op |-> "none", status |-> 0]
NoData == [none |-> TRUE]
NoRequest == [none |-> TRUE]   \* no request object of a guarded route

Has(body, key) == key \in DOMAIN body

\* ids the database generates, in generation order
UserIdSeq  == <<"u1", "u2", "u3">>
GenreIdSeq == <<"g1", "g2", "g3", "g4", "g5">>
BookIdSeq  == <<"b1", "b2", "b3", "b4", "b5">>
OrderIdSeq == <<"o1", "o2", "o3", "o4", "o5">>

\* The id a create() generates for a table holding `tbl`.
NewId(idSeq, tbl) == idSeq[Cardinality(DOMAIN tbl) + 1]

---------------------------------------------------------------------------
(* The database at start: a user, an active and a soft-deleted genre, two   *)
(* active books and a soft-deleted one, and one order placed earlier.       *)

InitUsers ==
    [u \in {"u1"} |-> [email |-> "a@b.com", username |-> Null, password |-> [hash |-> "pw1"]]]

InitGenres ==
    [g \in {"g1", "g2"} |->
        IF g = "g1"
        THEN [name |-> "n1", deleted_at |-> Null, created_at |-> 1]
        ELSE [name |-> "n2", deleted_at |-> Timestamp, created_at |-> 2]]

InitBooks ==
    [b \in {"b1", "b2", "b3"} |->
        CASE b = "b1" ->
               [title |-> "t1", writer |-> "w1", publisher |-> "p1",
                description |-> "d1", publication_year |-> 2001, price |-> 3,
                stock_quantity |-> 2, genre_id |-> "g1", deleted_at |-> Null,
                created_at |-> 1]
          [] b = "b2" ->
               [title |-> "t2", writer |-> "w1", publisher |-> "p1",
                description |-> "d1", publication_year |-> 2001, price |-> 5,
                stock_quantity |-> 1, genre_id |-> "g1", deleted_at |-> Null,
                created_at |-> 2]
          [] OTHER ->
               [title |-> "t3", writer |-> "w1", publisher |-> "p1",
                description |-> "d1", publication_year |-> 2001, price |-> 3,
                stock_quantity |-> 1, genre_id |-> "g1",
                deleted_at |-> Timestamp, created_at |-> 3]]

InitOrders == [o \in {"o1"} |-> [user_id |-> "u1", created_at |-> 1]]

InitOrderItems ==
    <<[order_id |-> "o1", book_id |-> "b1", quantity |-> 1],
      [order_id |-> "o1", book_id |-> "b3", quantity |-> 2]>>

Idle == [pc |-> "idle"]
Done == [pc |-> "done"]

Init ==
    /\ users = InitUsers
    /\ genres = InitGenres
    /\ books = InitBooks
    /\ orders = InitOrders
    /\ orderItems = InitOrderItems
    /\ slots = [p \in Procs |-> Idle]
    /\ response = NoResponse
    /\ requests = [p \in Procs |-> NoRequest]

---------------------------------------------------------------------------
(* Responses (utils/response.ts) *)

\* ResponseHelper.success / ResponseHelper.error / ResponseHelper.paginated:
\* the status code, the message and the payload, with the request they answer.
Reply(p, op, req, status, message, data) ==
    [p |-> p, op |-> op, req |-> req, status |-> status,
     message |-> message, data |-> data]

\* A handler's last step: it sends `r` and the request is over.
Respond(p, r) ==
    /\ response' = r
    /\ slots' = [slots EXCEPT ![p] = Done]

\* A handler's step that awaits the next database call with locals `l`.
Continue(p, l) ==
    /\ response' = NoResponse
    /\ slots' = [slots EXCEPT ![p] = l]

\* The response leaves the server; the next step of any request follows.
ResponseSent ==
    /\ response # NoResponse
    /\ response' = NoResponse
    /\ requests' = [requests EXCEPT ![response.p] = NoRequest]
    /\ UNCHANGED <<users, genres, books, orders, orderItems, slots>>

\* A request arrives in slot p: the server is ready for it, and the slots
\* before p are taken.
Arrives(p) ==
    /\ response = NoResponse
    /\ slots[p].pc = "idle"
    /\ \A i, j \in DOMAIN ProcSeq :
          (ProcSeq[j] = p /\ i < j) => slots[ProcSeq[i]].pc # "idle"

\* Slot p is at position `pc` and the server is ready for its next step.
At(p, pc) ==
    /\ response = NoResponse
    /\ slots[p].pc = pc

---------------------------------------------------------------------------
(* createTransaction (controllers/transactionController.ts) *)

NaN == "NaN"

\* The line items a request may carry: a book id and a quantity, or an item
\* that lacks its quantity.
BookRefs == {"b1", "b2", "b3", "bX"}
Items ==
    [book_id : BookRefs, quantity : 1..MaxQuantity] \cup {[book_id |-> "b1"]}
ItemLists == UNION {[1..n -> Items] : n \in 1..MaxItems}
ShortItemLists == [1..1 -> Items]
Array(l) == [array |-> TRUE, elems |-> l]
NotAnArray == [array |-> FALSE]

\* Request bodies of POST /transactions.
OrderBodies ==
    {[user_id |-> "u1", items |-> Array(l)] : l \in ItemLists \cup {<<>>}}
    \cup {[user_id |-> "uX", items |-> Array(l)] : l \in ShortItemLists}
    \cup {[items |-> Array(l)] : l \in ShortItemLists}
    \cup {[user_id |-> "u1"], [user_id |-> "u1", items |-> NotAnArray]}

\* !user_id || !items || !Array.isArray(items) || items.length === 0
InvalidOrderBody(body) ==
    \/ ~Has(body, "user_id")
    \/ body.user_id = ""
    \/ ~Has(body, "items")
    \/ ~body.items.array
    \/ Len(body.items.elems) = 0

\* prisma.book.findMany({ where: { id: { in: bookIds }, deleted_at: null } }):
\* the ids of the rows found.
FindManyBooks(bookIds) ==
    {b \in DOMAIN books :
        /\ \E i \in DOMAIN bookIds : bookIds[i] = b
        /\ books[b].deleted_at = Null}

\* The check with an off-by-one bound.
InsufficientLax(book, item) ==
    /\ Has(item, "quantity")
    /\ book.stock_quantity + 1 < item.quantity

\* book.stock_quantity < item.quantity; a comparison with undefined is false.
Insufficient(book, item) ==
    /\ Has(item, "quantity")
    /\ book.stock_quantity < item.quantity

\* The loop of lines 37-45 over the items from index i: the first item that
\* fails decides the answer, "ok" when none fails.
RECURSIVE StockCheck(_, _, _)
StockCheck(items, found, i) ==
    IF i > Len(items) THEN [result |-> "ok"]
    ELSE IF items[i].book_id \notin found
         THEN [result |-> "notfound", book_id |-> items[i].book_id]
    ELSE IF Insufficient(books[items[i].book_id], items[i])
         THEN [result |-> "insufficient",
               title |-> books[items[i].book_id].title]
    ELSE StockCheck(items, found, i + 1)

RECURSIVE SumQuantity(_, _)
SumQuantity(items, i) ==
    IF i > Len(items) THEN 0 ELSE items[i].quantity + SumQuantity(items, i + 1)

\* The sum of the prices, the quantities left out.
RECURSIVE SumUnitPrice(_, _, _)
SumUnitPrice(items, rows, i) ==
    IF i > Len(items) THEN 0
    ELSE rows[items[i].book_id].price + SumUnitPrice(items, rows, i + 1)

RECURSIVE SumPrice(_, _, _)
SumPrice(items, rows, i) ==
    IF i > Len(items) THEN 0
    ELSE rows[items[i].book_id].price * items[i].quantity
         + SumPrice(items, rows, i + 1)

\* Lines 47-56: adding an undefined quantity makes the sum NaN.
TotalQuantity(items) ==
    IF \E i \in DOMAIN items : ~Has(items[i], "quantity") THEN NaN
    ELSE SumQuantity(items, 1)

TotalPrice(items, rows) ==
    IF \E i \in DOMAIN items : ~Has(items[i], "quantity") THEN NaN
    ELSE SumPrice(items, rows, 1)

\* The lookup compared with the requested ids as sets.
BooksMissingAsSet(found, bookIds) == \E i \in DOMAIN bookIds : bookIds[i] \notin found

\* books.length !== bookIds.length (line 33): findMany returns a row once
\* however often its id is in the list.
BooksMissing(found, bookIds) == Cardinality(found) # Len(bookIds)

\* Lines 11-56 (the book id or title that a message names is the answer's
\* data here): the request is validated, the user and the books are looked
\* up, the stock is checked and the totals are computed.  A User row is never
\* updated or deleted, so the user lookup and the book lookup are one step.
createTransaction_check(p, body) ==
    /\ Arrives(p)
    /\ UNCHANGED db
    /\ LET re(status, message, data) ==
               Respond(p, Reply(p, "createTransaction", body, status, message, data))
       IN IF InvalidOrderBody(body)
          THEN re(400, "Invalid request data", NoData)
          ELSE IF body.user_id \notin DOMAIN users
          THEN re(404, "User not found", NoData)
          ELSE LET items == body.items.elems
                   bookIds == [i \in DOMAIN items |-> items[i].book_id]
                   found == FindManyBooks(bookIds)
                   check == StockCheck(items, found, 1)
               IN IF BooksMissing(found, bookIds)
                  THEN re(404, "One or more books not found", NoData)
                  ELSE IF check.result = "notfound"
                  THEN re(404, "Book not found", [book_id |-> check.book_id])
                  ELSE IF check.result = "insufficient"
                  THEN re(400, "Insufficient stock for book", [title |-> check.title])
                  ELSE Continue(p, [pc |-> "createTransaction_tx", req |-> body,
                                    books |-> [b \in found |-> books[b]],
                                    total_quantity |-> TotalQuantity(items),
                                    total_price |-> TotalPrice(items, books)])

\* The tables a database transaction of createTransaction writes.
Tables == [orders |-> orders, orderItems |-> orderItems, books |-> books]

\* The statements of the transaction body (lines 59-82), numbered from 1:
\* order.create, then for each item orderItem.create and book.update.
TxLength(items) == 1 + 2 * Len(items)

\* Statement j with creates that replace the rows of their table.
StatementReplacing(t, oid, user_id, items, j) ==
    IF j = 1
    THEN [t EXCEPT !.orders = (oid :> [user_id |-> user_id,
                                       created_at |-> Cardinality(DOMAIN t.orders) + 1])]
    ELSE LET item == items[j \div 2]
         IN IF j % 2 = 0
            THEN [t EXCEPT !.orderItems =
                     <<[order_id |-> oid, book_id |-> item.book_id,
                        quantity |-> item.quantity]>>]
            ELSE [t EXCEPT !.books[item.book_id].stock_quantity = @ - item.quantity]

\* The effect of statement j on the transaction's view t of the tables.
Statement(t, oid, user_id, items, j) ==
    IF j = 1
    THEN [t EXCEPT !.orders =
             t.orders @@ (oid :> [user_id |-> user_id,
                                  created_at |-> Cardinality(DOMAIN t.orders) + 1])]
    ELSE LET item == items[j \div 2]
         IN IF j % 2 = 0
            THEN [t EXCEPT !.orderItems =
                     Append(t.orderItems, [order_id |-> oid, book_id |-> item.book_id,
                                           quantity |-> item.quantity])]
            ELSE [t EXCEPT !.books[item.book_id].stock_quantity = @ - item.quantity]

\* The transaction's view after its first k statements.
RECURSIVE TxRun(_, _, _, _, _)
TxRun(t, oid, user_id, items, k) ==
    IF k = 0 THEN t
    ELSE Statement(TxRun(t, oid, user_id, items, k - 1), oid, user_id, items, k)

\* orderItem.create rejects data without a quantity (a validation error of
\* the client): the first statement that throws for that reason, or
\* TxLength + 1 when none does.
FirstInvalid(items) ==
    LET bad == {i \in DOMAIN items : ~Has(items[i], "quantity")}
    IN IF bad = {} THEN TxLength(items) + 1
       ELSE 2 * (CHOOSE i \in bad : \A j \in bad : i <= j)

\* The callback run without a transaction: what it wrote stays.
TxNoRollback(before, written) == written

\* prisma.$transaction: when the callback throws, the tables are as before
\* it started, whatever the callback had written.
TxRollback(before, written) == before

\* Lines 58-100: the database transaction, and the answer.  Statement k may
\* fail in the database (k = TxLength + 1: none does); isolation hides the
\* transaction's writes until it commits, so it is one step.
createTransaction_tx(p) ==
    /\ At(p, "createTransaction_tx")
    /\ LET body == slots[p].req
           items == body.items.elems
           oid == NewId(OrderIdSeq, orders)
           run(k) == TxRun(Tables, oid, body.user_id, items, k)
           re(status, message, data) ==
               Respond(p, Reply(p, "createTransaction", body, status, message, data))
       IN \E k \in 1..(TxLength(items) + 1) :
            LET fails == IF k < FirstInvalid(items) THEN k ELSE FirstInvalid(items)
                after == IF fails <= TxLength(items)
                         THEN TxRollback(Tables, run(fails - 1))
                         ELSE run(TxLength(items))
            IN /\ orders' = after.orders
               /\ orderItems' = after.orderItems
               /\ books' = after.books
               /\ UNCHANGED <<users, genres>>
               /\ IF fails <= TxLength(items)
                  THEN re(500, "Internal server error", NoData)
                  ELSE re(201, "Transaction created successfully",
                          [transaction_id |-> oid,
                           total_quantity |-> slots[p].total_quantity,
                           total_price |-> slots[p].total_price])

---------------------------------------------------------------------------
(* createBook, updateBook, deleteBook (controllers/bookController.ts) *)

\* A body without keys.
EmptyBody == [k \in {} |-> 0]

\* !x for a string field and for a number field of a body.
FalsyString(body, key) == ~Has(body, key) \/ body[key] = ""
FalsyNumber(body, key) == ~Has(body, key) \/ body[key] = 0

\* Largest stock_quantity a createBook or updateBook request carries.
MaxStock == 3
StockInputs == {-1, MaxStock}

\* Request bodies of POST /books: the title of an active book, of a
\* soft-deleted book, or a new one; an active, a soft-deleted or an unknown
\* genre; with and without a description; and two bodies that lack a
\* required field.
BookFields == [writer |-> "w2", publisher |-> "p2", publication_year |-> 2002, price |-> 7]
BookBodies ==
    {BookFields @@ [title |-> t, genre_id |-> g, stock_quantity |-> q] @@ d :
        t \in {"t1", "t3", "t4"}, g \in {"g1", "g2", "gX"}, q \in StockInputs,
        d \in {EmptyBody, [description |-> "d2"]}}
    \cup {BookFields @@ [title |-> "t3", genre_id |-> "g1"],
          [title |-> "t1", genre_id |-> "g1", stock_quantity |-> MaxStock]}

\* Line 23.
MissingBookFields(body) ==
    \/ FalsyString(body, "title")
    \/ FalsyString(body, "writer")
    \/ FalsyString(body, "publisher")
    \/ FalsyNumber(body, "publication_year")
    \/ FalsyNumber(body, "price")
    \/ ~Has(body, "stock_quantity")
    \/ FalsyString(body, "genre_id")

\* prisma.genre.findFirst({ where: { id, deleted_at: null } }) finds a row.
ActiveGenre(id) == id \in DOMAIN genres /\ genres[id].deleted_at = Null

\* prisma.book.findFirst({ where: { id, deleted_at: null } }) finds a row.
ActiveBook(id) == id \in DOMAIN books /\ books[id].deleted_at = Null

\* The ids of the soft-deleted Book rows with this title.
DeletedBooksTitled(title) ==
    {b \in DOMAIN books : books[b].title = title /\ books[b].deleted_at # Null}

\* The ids of the Book rows with this title, soft-deleted ones included.
BooksTitled(title) == {b \in DOMAIN books : books[b].title = title}

\* The Book table without a unique index on the title.
TitleNeverTaken(title) == FALSE

\* The unique index on Book.title: an insert of a title that a row holds
\* fails with P2002.
TitleTaken(title) == \E b \in DOMAIN books : books[b].title = title

\* description || ''
Description(body) ==
    IF FalsyString(body, "description") THEN "" ELSE body.description

\* The restore with the price left as it was.
RestoreDataKeepPrice(row, body) ==
    [row EXCEPT !.deleted_at = Null,
                !.writer = body.writer,
                !.publisher = body.publisher,
                !.description = Description(body),
                !.publication_year = body.publication_year,
                !.stock_quantity = body.stock_quantity,
                !.genre_id = body.genre_id]

\* The data of the update that restores a soft-deleted book (lines 61-75).
RestoreData(row, body) ==
    [row EXCEPT !.deleted_at = Null,
                !.writer = body.writer,
                !.publisher = body.publisher,
                !.description = Description(body),
                !.publication_year = body.publication_year,
                !.price = body.price,
                !.stock_quantity = body.stock_quantity,
                !.genre_id = body.genre_id]

\* The data of the create (lines 92-102).
NewBook(body, created_at) ==
    [title |-> body.title, writer |-> body.writer, publisher |-> body.publisher,
     description |-> Description(body),
     publication_year |-> body.publication_year, price |-> body.price,
     stock_quantity |-> body.stock_quantity, genre_id |-> body.genre_id,
     deleted_at |-> Null, created_at |-> created_at]

\* Lines 11-37: the required fields, then the genre.
createBook_genre(p, body) ==
    /\ Arrives(p)
    /\ UNCHANGED db
    /\ IF MissingBookFields(body)
       THEN Respond(p, Reply(p, "createBook", body, 400, "Missing required fields", NoData))
       ELSE IF ~ActiveGenre(body.genre_id)
       THEN Respond(p, Reply(p, "createBook", body, 404, "Genre not found", NoData))
       ELSE Continue(p, [pc |-> "createBook_find", req |-> body])

\* Lines 41-54: any book with this title, active or soft-deleted.
createBook_find(p) ==
    /\ At(p, "createBook_find")
    /\ UNCHANGED db
    /\ LET body == slots[p].req
           existing == BooksTitled(body.title)
       IN IF existing = {}
          THEN Continue(p, [pc |-> "createBook_create", req |-> body])
          ELSE LET id == CHOOSE b \in existing : TRUE
               IN IF books[id].deleted_at = Null
                  THEN Respond(p, Reply(p, "createBook", body, 400,
                                        "Book with this title already exists", NoData))
                  ELSE Continue(p, [pc |-> "createBook_restore", req |-> body,
                                    existingBook |-> id])

\* Lines 59-84: the soft-deleted row is restored with the request's data.
createBook_restore(p) ==
    /\ At(p, "createBook_restore")
    /\ LET body == slots[p].req
           id == slots[p].existingBook
       IN /\ books' = [books EXCEPT ![id] = RestoreData(@, body)]
          /\ Respond(p, Reply(p, "createBook", body, 200,
                              "Book restored and updated successfully",
                              [id |-> id, title |-> books[id].title]))
    /\ UNCHANGED <<users, genres, orders, orderItems>>

\* Lines 91-127: the insert, or P2002 when a row took the title meanwhile.
createBook_create(p) ==
    /\ At(p, "createBook_create")
    /\ LET body == slots[p].req
           id == NewId(BookIdSeq, books)
       IN IF TitleTaken(body.title)
          THEN /\ UNCHANGED books
               /\ Respond(p, Reply(p, "createBook", body, 400, "Duplicate field value", NoData))
          ELSE /\ books' = books @@ (id :> NewBook(body, Cardinality(DOMAIN books) + 1))
               /\ Respond(p, Reply(p, "createBook", body, 201, "Book added successfully",
                                   [id |-> id, title |-> body.title]))
    /\ UNCHANGED <<users, genres, orders, orderItems>>

\* Request bodies of PATCH /books/:book_id: any of description, price and
\* stock_quantity.
UpdateBookBodies ==
    {d @@ c @@ q :
        d \in {EmptyBody, [description |-> "d2"]},
        c \in {EmptyBody, [price |-> 7]},
        q \in {EmptyBody} \cup {[stock_quantity |-> n] : n \in StockInputs}}
UpdateBookRequests == [book_id : {"b1", "b3", "bX"}, body : UpdateBookBodies]

\* The update with a stock_quantity that is reset when the body has none.
UpdateDataReset(row, body) ==
    [row EXCEPT
        !.description = IF Has(body, "description") THEN body.description ELSE @,
        !.price = IF Has(body, "price") THEN body.price ELSE @,
        !.stock_quantity = IF Has(body, "stock_quantity") THEN body.stock_quantity ELSE 0]

\* Lines 369-373: the fields the update writes.
UpdateData(row, body) ==
    [row EXCEPT
        !.description = IF Has(body, "description") THEN body.description ELSE @,
        !.price = IF Has(body, "price") THEN body.price ELSE @,
        !.stock_quantity = IF Has(body, "stock_quantity") THEN body.stock_quantity ELSE @]

\* Lines 354-377.
updateBook_find(p, req) ==
    /\ Arrives(p)
    /\ UNCHANGED db
    /\ IF ~ActiveBook(req.book_id)
       THEN Respond(p, Reply(p, "updateBook", req, 404, "Book not found", NoData))
       ELSE IF DOMAIN req.body \cap {"description", "price", "stock_quantity"} = {}
       THEN Respond(p, Reply(p, "updateBook", req, 400, "No fields to update", NoData))
       ELSE Continue(p, [pc |-> "updateBook_update", req |-> req])

\* Lines 379-389.
updateBook_update(p) ==
    /\ At(p, "updateBook_update")
    /\ LET req == slots[p].req
       IN /\ books' = [books EXCEPT ![req.book_id] = UpdateData(@, req.body)]
          /\ Respond(p, Reply(p, "updateBook", req, 200, "Book updated successfully",
                              [id |-> req.book_id, title |-> books[req.book_id].title]))
    /\ UNCHANGED <<users, genres, orders, orderItems>>

\* Line 416: the data of the soft delete.
DeleteData(row) == [row EXCEPT !.deleted_at = Timestamp]

\* Lines 399-411.
deleteBook_find(p, req) ==
    /\ Arrives(p)
    /\ UNCHANGED db
    /\ IF ~ActiveBook(req.book_id)
       THEN Respond(p, Reply(p, "deleteBook", req, 404, "Book not found", NoData))
       ELSE Continue(p, [pc |-> "deleteBook_update", req |-> req])

\* Lines 413-419.
deleteBook_update(p) ==
    /\ At(p, "deleteBook_update")
    /\ LET req == slots[p].req
       IN /\ books' = [books EXCEPT ![req.book_id] = DeleteData(@)]
          /\ Respond(p, Reply(p, "deleteBook", req, 200, "Book removed successfully", NoData))
    /\ UNCHANGED <<users, genres, orders, orderItems>>

---------------------------------------------------------------------------
(* createGenre, updateGenre, deleteGenre (controllers/genreController.ts) *)

GenreBodies == {EmptyBody, [name |-> "n1"], [name |-> "n2"], [name |-> "n3"]}
GenreRefs == {"g1", "g2", "gX"}

\* The ids of the Genre rows with this name, soft-deleted ones included:
\* prisma.genre.findUnique({ where: { name } }).
GenresNamed(name) == {g \in DOMAIN genres : genres[g].name = name}

\* The unique index on Genre.name that findUnique({ where: { name } }) needs:
\* a write that gives a second row the name fails with P2002.
NameTaken(name, except) == GenresNamed(name) \ {except} # {}

\* Lines 10-23.
createGenre_find(p, body) ==
    /\ Arrives(p)
    /\ UNCHANGED db
    /\ IF FalsyString(body, "name")
       THEN Respond(p, Reply(p, "createGenre", body, 400, "Name is required", NoData))
       ELSE IF GenresNamed(body.name) # {}
       THEN Respond(p, Reply(p, "createGenre", body, 400, "Genre name already exists", NoData))
       ELSE Continue(p, [pc |-> "createGenre_create", req |-> body])

\* Lines 25-38: the insert; a unique violation is answered 500.
createGenre_create(p) ==
    /\ At(p, "createGenre_create")
    /\ LET body == slots[p].req
           id == NewId(GenreIdSeq, genres)
       IN IF NameTaken(body.name, "none")
          THEN /\ UNCHANGED genres
               /\ Respond(p, Reply(p, "createGenre", body, 500, "Internal server error", NoData))
          ELSE /\ genres' = genres @@
                     (id :> [name |-> body.name, deleted_at |-> Null,
                             created_at |-> Cardinality(DOMAIN genres) + 1])
               /\ Respond(p, Reply(p, "createGenre", body, 201, "Genre created successfully",
                                   [id |-> id, name |-> body.name]))
    /\ UNCHANGED <<users, books, orders, orderItems>>

UpdateGenreRequests == [genre_id : GenreRefs, body : GenreBodies]

\* Lines 118-135.
updateGenre_find(p, req) ==
    /\ Arrives(p)
    /\ UNCHANGED db
    /\ IF FalsyString(req.body, "name")
       THEN Respond(p, Reply(p, "updateGenre", req, 400, "Name is required", NoData))
       ELSE IF ~ActiveGenre(req.genre_id)
       THEN Respond(p, Reply(p, "updateGenre", req, 404, "Genre not found", NoData))
       ELSE Continue(p, [pc |-> "updateGenre_duplicate", req |-> req])

\* Lines 137-148: another active genre with the name.
updateGenre_duplicate(p) ==
    /\ At(p, "updateGenre_duplicate")
    /\ UNCHANGED db
    /\ LET req == slots[p].req
       IN IF \E g \in GenresNamed(req.body.name) :
               g # req.genre_id /\ genres[g].deleted_at = Null
          THEN Respond(p, Reply(p, "updateGenre", req, 400, "Genre name already exists", NoData))
          ELSE Continue(p, [pc |-> "updateGenre_update", req |-> req])

\* Lines 150-164: the update; a unique violation is answered 500.
updateGenre_update(p) ==
    /\ At(p, "updateGenre_update")
    /\ LET req == slots[p].req
       IN IF NameTaken(req.body.name, req.genre_id)
          THEN /\ UNCHANGED genres
               /\ Respond(p, Reply(p, "updateGenre", req, 500, "Internal server error", NoData))
          ELSE /\ genres' = [genres EXCEPT ![req.genre_id].name = req.body.name]
               /\ Respond(p, Reply(p, "updateGenre", req, 200, "Genre updated successfully",
                                   [id |-> req.genre_id, name |-> req.body.name]))
    /\ UNCHANGED <<users, books, orders, orderItems>>

\* deleteGenre that refuses a genre a non-deleted book references.
deleteGenre_findGuarded(p, req) ==
    /\ Arrives(p)
    /\ UNCHANGED db
    /\ IF ~ActiveGenre(req.genre_id)
       THEN Respond(p, Reply(p, "deleteGenre", req, 404, "Genre not found", NoData))
       ELSE IF \E b \in DOMAIN books :
                  books[b].deleted_at = Null /\ books[b].genre_id = req.genre_id
       THEN Respond(p, Reply(p, "deleteGenre", req, 400, "Genre is in use", NoData))
       ELSE Continue(p, [pc |-> "deleteGenre_update", req |-> req])

\* Lines 170-182.
deleteGenre_find(p, req) ==
    /\ Arrives(p)
    /\ UNCHANGED db
    /\ IF ~ActiveGenre(req.genre_id)
       THEN Respond(p, Reply(p, "deleteGenre", req, 404, "Genre not found", NoData))
       ELSE Continue(p, [pc |-> "deleteGenre_update", req |-> req])

\* Lines 184-190.
deleteGenre_update(p) ==
    /\ At(p, "deleteGenre_update")
    /\ LET req == slots[p].req
       IN /\ genres' = [genres EXCEPT ![req.genre_id] = DeleteData(@)]
          /\ Respond(p, Reply(p, "deleteGenre", req, 200, "Genre removed successfully", NoData))
    /\ UNCHANGED <<users, books, orders, orderItems>>

---------------------------------------------------------------------------
(* register, login, getMe (controllers/authController.ts) *)

\* Request bodies of POST /auth/register and POST /auth/login.
RegisterBodies ==
    {[email |-> e, password |-> "pw2"] : e \in {"a@b.com", "c@d.com", "c@d", "cd.com", "cd"}}
    \cup {[email |-> "c@d.com"], [email |-> "c@d.com", password |-> "pw2", username |-> "n"]}
LoginBodies ==
    {[email |-> e, password |-> w] : e \in {"a@b.com", "c@d.com"}, w \in {"pw1", "pw2"}}
    \cup {[password |-> "pw1"]}

\* email.includes(ch) for the addresses of the model.
Includes(email, ch) ==
    CASE ch = "@" -> email \in {"a@b.com", "c@d.com", "c@d"}
      [] ch = "." -> email \in {"a@b.com", "c@d.com", "cd.com"}

\* bcrypt.hash and bcrypt.compare.
BcryptHash(password) == [hash |-> password]
BcryptCompare(password, hashed) == hashed.hash = password

\* prisma.user.findUnique({ where: { email } }): the ids of the rows found.
UsersWithEmail(email) == {u \in DOMAIN users : users[u].email = email}

\* register, lines 12-36.
register_find(p, body) ==
    /\ Arrives(p)
    /\ UNCHANGED db
    /\ LET re(status, message) ==
               Respond(p, Reply(p, "register", body, status, message, NoData))
       IN IF FalsyString(body, "email") \/ FalsyString(body, "password")
          THEN re(400, "Email and password are required")
          ELSE IF ~Includes(body.email, "@") /\ ~Includes(body.email, ".")
          THEN re(400, "Invalid email format: '@' & '.'")
          ELSE IF ~Includes(body.email, "@")
          THEN re(400, "Invalid email format: @")
          ELSE IF ~Includes(body.email, ".")
          THEN re(400, "Invalid email format: .")
          ELSE IF UsersWithEmail(body.email) # {}
          THEN re(400, "Email already registered")
          ELSE Continue(p, [pc |-> "register_create", req |-> body])

\* register, lines 38-59: the insert; the unique index on User.email makes a
\* second insert of the address fail, which is answered 500.
register_create(p) ==
    /\ At(p, "register_create")
    /\ LET body == slots[p].req
           id == NewId(UserIdSeq, users)
       IN IF UsersWithEmail(body.email) # {}
          THEN /\ UNCHANGED users
               /\ Respond(p, Reply(p, "register", body, 500, "Internal server error", NoData))
          ELSE /\ users' = users @@
                     (id :> [email |-> body.email,
                             username |-> IF FalsyString(body, "username") THEN Null
                                          ELSE body.username,
                             password |-> BcryptHash(body.password)])
               /\ Respond(p, Reply(p, "register", body, 201, "User registered successfully",
                                   [id |-> id, email |-> body.email]))
    /\ UNCHANGED <<genres, books, orders, orderItems>>

\* login, lines 65-104, with JWT_SECRET set; a User row is never updated, so
\* the lookup and the comparison are one step.
login(p, body) ==
    /\ Arrives(p)
    /\ UNCHANGED db
    /\ LET re(status, message, data) ==
               Respond(p, Reply(p, "login", body, status, message, data))
       IN IF FalsyString(body, "email") \/ FalsyString(body, "password")
          THEN re(400, "Email and password are required", NoData)
          ELSE IF UsersWithEmail(body.email) = {}
          THEN re(401, "Invalid credentials", NoData)
          ELSE LET id == CHOOSE u \in UsersWithEmail(body.email) : TRUE
               IN IF ~BcryptCompare(body.password, users[id].password)
                  THEN re(401, "Invalid credentials", NoData)
                  ELSE re(200, "Login successfully",
                          [access_token |-> [id |-> id, email |-> body.email]])

\* The payloads authMiddleware may have decoded from the token of GET /auth/me.
GetMeRequests == {[user |-> [id |-> "u1"]], [user |-> [id |-> "uX"]], [user |-> EmptyBody]}

\* getMe, lines 114-133.
getMe(p, req) ==
    /\ Arrives(p)
    /\ UNCHANGED db
    /\ LET re(status, message, data) ==
               Respond(p, Reply(p, "getMe", req, status, message, data))
       IN IF FalsyString(req.user, "id")
          THEN re(401, "Unauthorized", NoData)
          ELSE IF req.user.id \notin DOMAIN users
          THEN re(404, "User not found", NoData)
          ELSE re(200, "Get me successfully",
                  [id |-> req.user.id, username |-> users[req.user.id].username,
                   email |-> users[req.user.id].email])

---------------------------------------------------------------------------
(* PaginationHelper (utils/pagination.ts) *)

\* A JavaScript number: an integer, or NaN.
Num(n) == [nan |-> FALSE, val |-> n]
NaNumber == [nan |-> TRUE]
NullValue == [null |-> TRUE]

\* parseInt of the query strings of the model; text without a leading number
\* gives NaN.
ParseInt(s) ==
    CASE s = "0" -> Num(0)
      [] s = "1" -> Num(1)
      [] s = "2" -> Num(2)
      [] s = "3" -> Num(3)
      [] s = "5" -> Num(5)
      [] s = "10" -> Num(10)
      [] s = "100" -> Num(100)
      [] s = "101" -> Num(101)
      [] s = "-1" -> Num(-1)
      [] s = "1.5" -> Num(1)
      [] s = "2nd" -> Num(2)
      [] OTHER -> NaNumber

\* Math.max and Math.min: NaN when an argument is NaN.
MathMax(a, b) ==
    IF a.nan \/ b.nan THEN NaNumber ELSE IF a.val >= b.val THEN a ELSE b
MathMin(a, b) ==
    IF a.nan \/ b.nan THEN NaNumber ELSE IF a.val <= b.val THEN a ELSE b

\* query.page || '1'
OrDefault(query, key, default) ==
    IF FalsyString(query, key) THEN default ELSE query[key]

getPaginationParams(query) ==
    LET page == MathMax(Num(1), ParseInt(OrDefault(query, "page", "1")))
        limit == MathMin(Num(100), MathMax(Num(1), ParseInt(OrDefault(query, "limit", "10"))))
    IN [page |-> page, limit |-> limit,
        skip |-> IF page.nan \/ limit.nan THEN NaNumber
                 ELSE Num((page.val - 1) * limit.val)]

\* Math.ceil(total / limit) for limit >= 1
Ceil(total, limit) == (total + limit - 1) \div limit

\* createMeta with the last page given a next page.
createMetaInclusive(page, limit, total) ==
    LET totalPages == Ceil(total, limit)
    IN [page |-> page, limit |-> limit,
        prev_page |-> IF page > 1 THEN Num(page - 1) ELSE NullValue,
        next_page |-> IF page <= totalPages THEN Num(page + 1) ELSE NullValue]

createMeta(page, limit, total) ==
    LET totalPages == Ceil(total, limit)
    IN [page |-> page, limit |-> limit,
        prev_page |-> IF page > 1 THEN Num(page - 1) ELSE NullValue,
        next_page |-> IF page < totalPages THEN Num(page + 1) ELSE NullValue]

\* The query strings of the list requests.
ListQueries ==
    {a @@ b : a \in {EmptyBody, [page |-> "2"], [page |-> "abc"]},
              b \in {EmptyBody, [limit |-> "1"]}}

\* The values of a page or limit query parameter: empty, numeric, zero,
\* negative, above 100, a fraction, and text with and without a leading
\* number.
QueryTexts == {"", "0", "1", "2", "3", "100", "101", "-1", "1.5", "2nd", "abc"}
PaginationQueries ==
    {a @@ b : a \in {EmptyBody} \cup {[page |-> t] : t \in QueryTexts},
              b \in {EmptyBody} \cup {[limit |-> t] : t \in QueryTexts}}

\* Largest page and largest total of a createMeta call.
MaxPage == 4
MaxTotal == 12
MetaCalls == [page : 1..MaxPage, limit : {1, 2, 5, 100}, total : 0..MaxTotal]

\* A call of getPaginationParams, and its result.
getPaginationParams_call(p, query) ==
    /\ Arrives(p)
    /\ UNCHANGED db
    /\ Respond(p, Reply(p, "getPaginationParams", query, 0, "", getPaginationParams(query)))

\* A call of createMeta, and its result.
createMeta_call(p, call) ==
    /\ Arrives(p)
    /\ UNCHANGED db
    /\ Respond(p, Reply(p, "createMeta", call, 0, "",
                        createMeta(call.page, call.limit, call.total)))

\* findMany rejects a skip or take that is NaN: the handler's catch answers.
InvalidPage(l) == l.skip.nan \/ l.limit.nan
ListFails(p, op) ==
    Respond(p, Reply(p, op, slots[p].req, 500, "Internal server error", NoData))

\* findMany that takes the first rows whatever skip is.
PageWithoutSkip(rows, skip, take) ==
    SubSeq(rows, 1, IF take < Len(rows) THEN take ELSE Len(rows))

\* skip and take of findMany on the ordered rows.
Page(rows, skip, take) ==
    SubSeq(rows, skip + 1, IF skip + take < Len(rows) THEN skip + take ELSE Len(rows))

\* The ids of S as a sequence, the row created last first
\* (orderBy: { created_at: 'desc' }).
RECURSIVE NewestFirst(_, _)
NewestFirst(tbl, S) ==
    IF S = {} THEN <<>>
    ELSE LET id == CHOOSE x \in S : \A y \in S : tbl[y].created_at <= tbl[x].created_at
         IN <<id>> \o NewestFirst(tbl, S \ {id})

\* The sequences that hold each element of S once: the orders in which a
\* findMany without orderBy may return the rows.
Orderings(S) ==
    {f \in [1..Cardinality(S) -> S] : \A i, j \in 1..Cardinality(S) : f[i] = f[j] => i = j}

---------------------------------------------------------------------------
(* The read handlers of books and genres *)

\* The projection of a book the read handlers return.
BookView(id) ==
    [id |-> id, title |-> books[id].title, writer |-> books[id].writer,
     publisher |-> books[id].publisher, description |-> books[id].description,
     publication_year |-> books[id].publication_year, price |-> books[id].price,
     stock_quantity |-> books[id].stock_quantity,
     genre |-> genres[books[id].genre_id].name]

GenreView(id) == [id |-> id, name |-> genres[id].name]

\* The message of a list handler's answer.
ListMessage(op) ==
    CASE op = "getAllBooks" -> "Get all book successfully"
      [] op = "getBooksByGenre" -> "Get all book by genre successfully"
      [] op = "getAllGenres" -> "Get all genre successfully"

\* The step of a list handler that has the result `l` of one more of its
\* two queries (Promise.all): with both it answers.
ListStep(p, op, l) ==
    IF Has(l, "rows") /\ Has(l, "total")
    THEN Respond(p, Reply(p, op, l.req, 200, ListMessage(op),
                          [rows |-> l.rows,
                           meta |-> createMeta(l.page.val, l.limit.val, l.total)]))
    ELSE Continue(p, l)

\* The locals of a list handler after getPaginationParams.
ListLocals(pc, req, query) ==
    LET pg == getPaginationParams(query)
    IN [pc |-> pc, req |-> req, page |-> pg.page, limit |-> pg.limit, skip |-> pg.skip]

\* Every Book row, soft-deleted ones included.
AnyBooks == DOMAIN books

\* The rows that where: { deleted_at: null } selects.
ActiveBooks == {b \in DOMAIN books : books[b].deleted_at = Null}
ActiveGenres == {g \in DOMAIN genres : genres[g].deleted_at = Null}

\* getAllBooks, lines 133-159: the pagination, the filter and the order.
getAllBooks(p, query) ==
    /\ Arrives(p)
    /\ UNCHANGED db
    /\ Continue(p, ListLocals("getAllBooks", query, query))

\* Lines 162-182: where deleted_at is null, newest first, skip and take.
getAllBooks_findMany(p) ==
    /\ At(p, "getAllBooks")
    /\ ~Has(slots[p], "rows")
    /\ UNCHANGED db
    /\ IF InvalidPage(slots[p]) THEN ListFails(p, "getAllBooks")
       ELSE LET ids == Page(NewestFirst(books, ActiveBooks),
                            slots[p].skip.val, slots[p].limit.val)
            IN ListStep(p, "getAllBooks",
                        slots[p] @@ [rows |-> [i \in DOMAIN ids |-> BookView(ids[i])]])

\* Line 183.
getAllBooks_count(p) ==
    /\ At(p, "getAllBooks")
    /\ ~Has(slots[p], "total")
    /\ UNCHANGED db
    /\ ListStep(p, "getAllBooks", slots[p] @@ [total |-> Cardinality(ActiveBooks)])

ListByGenreRequests == [genre_id : GenreRefs, query : ListQueries]

\* getBooksByGenre, lines 211-251: the genre is looked up first.
getBooksByGenre(p, req) ==
    /\ Arrives(p)
    /\ UNCHANGED db
    /\ IF ~ActiveGenre(req.genre_id)
       THEN Respond(p, Reply(p, "getBooksByGenre", req, 404, "Genre not found", NoData))
       ELSE Continue(p, ListLocals("getBooksByGenre", req, req.query))

BooksOfGenre(g) == {b \in ActiveBooks : books[b].genre_id = g}

\* Lines 254-274.
getBooksByGenre_findMany(p) ==
    /\ At(p, "getBooksByGenre")
    /\ ~Has(slots[p], "rows")
    /\ UNCHANGED db
    /\ IF InvalidPage(slots[p]) THEN ListFails(p, "getBooksByGenre")
       ELSE LET ids == Page(NewestFirst(books, BooksOfGenre(slots[p].req.genre_id)),
                            slots[p].skip.val, slots[p].limit.val)
            IN ListStep(p, "getBooksByGenre",
                        slots[p] @@ [rows |-> [i \in DOMAIN ids |-> BookView(ids[i])]])

\* Line 275.
getBooksByGenre_count(p) ==
    /\ At(p, "getBooksByGenre")
    /\ ~Has(slots[p], "total")
    /\ UNCHANGED db
    /\ ListStep(p, "getBooksByGenre",
                slots[p] @@ [total |-> Cardinality(BooksOfGenre(slots[p].req.genre_id))])

\* getBookById, lines 303-344.
getBookById(p, req) ==
    /\ Arrives(p)
    /\ UNCHANGED db
    /\ IF ~ActiveBook(req.book_id)
       THEN Respond(p, Reply(p, "getBookById", req, 404, "Book not found", NoData))
       ELSE Respond(p, Reply(p, "getBookById", req, 200, "Get book detail successfully",
                             BookView(req.book_id)))

\* getAllGenres, lines 44-63 of genreController.ts.
getAllGenres(p, query) ==
    /\ Arrives(p)
    /\ UNCHANGED db
    /\ Continue(p, ListLocals("getAllGenres", query, query))

\* Lines 66-75: where deleted_at is null; without orderByName the orderBy is
\* empty and the database returns the rows in an order of its choice.
getAllGenres_findMany(p) ==
    /\ At(p, "getAllGenres")
    /\ ~Has(slots[p], "rows")
    /\ UNCHANGED db
    /\ IF InvalidPage(slots[p]) THEN ListFails(p, "getAllGenres")
       ELSE \E order \in Orderings(ActiveGenres) :
              LET ids == Page(order, slots[p].skip.val, slots[p].limit.val)
              IN ListStep(p, "getAllGenres",
                          slots[p] @@ [rows |-> [i \in DOMAIN ids |-> GenreView(ids[i])]])

\* Line 76.
getAllGenres_count(p) ==
    /\ At(p, "getAllGenres")
    /\ ~Has(slots[p], "total")
    /\ UNCHANGED db
    /\ ListStep(p, "getAllGenres", slots[p] @@ [total |-> Cardinality(ActiveGenres)])

\* getGenreById, lines 91-108 of genreController.ts.
getGenreById(p, req) ==
    /\ Arrives(p)
    /\ UNCHANGED db
    /\ IF ~ActiveGenre(req.genre_id)
       THEN Respond(p, Reply(p, "getGenreById", req, 404, "Genre not found", NoData))
       ELSE Respond(p, Reply(p, "getGenreById", req, 200, "Get genre detail successfully",
                             GenreView(req.genre_id)))

---------------------------------------------------------------------------
(* getTransactionById (controllers/transactionController.ts) *)

OrderRefs == {"o1", "o2", "oX"}

\* The rows of an order's order_items relation, in insertion order.
ItemsOf(oid) == SelectSeq(orderItems, LAMBDA it : it.order_id = oid)

\* An item of the answer at the price the book was first listed at.
ItemViewAtListPrice(it) ==
    [book_id |-> it.book_id, book_title |-> books[it.book_id].title,
     quantity |-> it.quantity,
     subtotal_price |-> (IF it.book_id \in DOMAIN InitBooks
                         THEN InitBooks[it.book_id].price
                         ELSE books[it.book_id].price) * it.quantity]

\* Lines 246-257: an item of the answer, with the related book.
ItemView(it) ==
    [book_id |-> it.book_id, book_title |-> books[it.book_id].title,
     quantity |-> it.quantity,
     subtotal_price |-> books[it.book_id].price * it.quantity]

RECURSIVE SumField(_, _, _)
SumField(rows, field, i) ==
    IF i > Len(rows) THEN 0 ELSE rows[i][field] + SumField(rows, field, i + 1)

\* Lines 226-266.
getTransactionById(p, req) ==
    /\ Arrives(p)
    /\ UNCHANGED db
    /\ IF req.transaction_id \notin DOMAIN orders
       THEN Respond(p, Reply(p, "getTransactionById", req, 404, "Transaction not found", NoData))
       ELSE LET rows == ItemsOf(req.transaction_id)
                items == [i \in DOMAIN rows |-> ItemView(rows[i])]
            IN Respond(p, Reply(p, "getTransactionById", req, 200,
                                "Get transaction detail successfully",
                                [id |-> req.transaction_id, items |-> items,
                                 total_quantity |-> SumField(items, "quantity", 1),
                                 total_price |-> SumField(items, "subtotal_price", 1)]))

---------------------------------------------------------------------------
(* getAllTransactions (controllers/transactionController.ts) *)

\* The query strings of GET /transactions; a search that is not a UUID is
\* ignored, and the ids of the model are not UUIDs.
TransactionQueries ==
    {EmptyBody, [page |-> "2", limit |-> "1"], [page |-> "abc"],
     [orderByAmount |-> "asc"], [orderById |-> "asc", limit |-> "1"]}

\* createMeta of numbers that may be NaN: a comparison with NaN is false.
createMetaOf(page, limit, total) ==
    IF page.nan \/ limit.nan
    THEN [page |-> page, limit |-> limit,
          prev_page |-> IF ~page.nan /\ page.val > 1 THEN Num(page.val - 1) ELSE NullValue,
          next_page |-> NullValue]
    ELSE createMeta(page.val, limit.val, total)

\* Lines 169-183: an order of the answer, with the prices the books have.
OrderView(oid) ==
    LET items == [i \in DOMAIN ItemsOf(oid) |-> ItemView(ItemsOf(oid)[i])]
    IN [id |-> oid,
        total_quantity |-> SumField(items, "quantity", 1),
        total_price |-> SumField(items, "subtotal_price", 1)]

\* Array.prototype.sort, which is stable, on the first n rows by ascending
\* key.
RECURSIVE SortByKey(_, _)
SortByKey(keyed, n) ==
    IF n = 0 THEN <<>>
    ELSE LET sorted == SortByKey(keyed, n - 1)
             k == Cardinality({i \in DOMAIN sorted : sorted[i].key <= keyed[n].key})
         IN SubSeq(sorted, 1, k) \o <<keyed[n]>> \o SubSeq(sorted, k + 1, Len(sorted))

\* a.id.localeCompare(b.id) on the ids the database generates.
IdRank(oid) == CHOOSE i \in DOMAIN OrderIdSeq : OrderIdSeq[i] = oid

\* The rows as they come, whatever the query asks for.
Unsorted(rows, query, param) == rows

\* Lines 186-192 and 194-200: rows sorted by id or by total_price, ascending for
\* 'asc' and descending for any other non-empty text.
Sorted(rows, query, param) ==
    IF FalsyString(query, param) THEN rows
    ELSE LET sign == IF query[param] = "asc" THEN 1 ELSE -1
             keyed == [i \in DOMAIN rows |->
                          [row |-> rows[i],
                           key |-> sign * (IF param = "orderById" THEN IdRank(rows[i].id)
                                           ELSE rows[i].total_price)]]
             sorted == SortByKey(keyed, Len(keyed))
         IN [i \in DOMAIN sorted |-> sorted[i].row]

\* The most orders a request with orderByAmount fetches: 1000 in the source,
\* scaled to the order counts of the model.
FetchCap == 3

\* Math.min(total, 1000)
FetchLimit(total) == IF total < FetchCap THEN total ELSE FetchCap

\* Lines 106-138: the pagination, the count, and the answer when it is 0.
getAllTransactions_count(p, query) ==
    /\ Arrives(p)
    /\ UNCHANGED db
    /\ LET l == ListLocals("getAllTransactions_findMany", query, query)
           total == Cardinality(DOMAIN orders)
       IN IF total = 0
          THEN Respond(p, Reply(p, "getAllTransactions", query, 200,
                                "Get all transaction successfully",
                                [rows |-> <<>>, meta |-> createMetaOf(l.page, l.limit, 0)]))
          ELSE Continue(p, l @@ [total |-> total])

\* Lines 141-211: the orders newest first, their totals, the sorts and the
\* page.
getAllTransactions_findMany(p) ==
    /\ At(p, "getAllTransactions_findMany")
    /\ UNCHANGED db
    /\ LET l == slots[p]
           shouldFetchAll == Has(l.req, "orderByAmount")
           newest == NewestFirst(orders, DOMAIN orders)
           ids == IF shouldFetchAll THEN Page(newest, 0, FetchLimit(l.total))
                  ELSE Page(newest, l.skip.val, l.limit.val)
           transformed == [i \in DOMAIN ids |-> OrderView(ids[i])]
           sorted == Sorted(Sorted(transformed, l.req, "orderById"), l.req, "orderByAmount")
           rows == IF ~shouldFetchAll THEN sorted
                   ELSE IF InvalidPage(l) THEN <<>>
                   ELSE Page(sorted, l.skip.val, l.limit.val)
       IN IF ~shouldFetchAll /\ InvalidPage(l)
          THEN ListFails(p, "getAllTransactions")
          ELSE Respond(p, Reply(p, "getAllTransactions", l.req, 200,
                                "Get all transaction successfully",
                                [rows |-> rows,
                                 meta |-> createMetaOf(l.page, l.limit, l.total)]))

---------------------------------------------------------------------------
(* getTransactionStatistics (controllers/transactionController.ts) *)

\* Lines 293-298: the sum of price times quantity over the items of the
\* orders, from item i.
RECURSIVE TotalAmount(_)
TotalAmount(i) ==
    IF i > Len(orderItems) THEN 0
    ELSE (IF orderItems[i].order_id \in DOMAIN orders
          THEN books[orderItems[i].book_id].price * orderItems[i].quantity ELSE 0)
         + TotalAmount(i + 1)

\* Math.round of n / d for d > 0: the nearest integer, a half rounded up.
Round(n, d) == (2 * n + d) \div (2 * d)

\* Lines 300-302.
AverageTransactionAmount(totalAmount, totalTransactions) ==
    IF totalTransactions > 0 THEN Round(totalAmount, totalTransactions) ELSE 0

\* _sum.quantity of the group of book b, from item i.
RECURSIVE SumOfGroup(_, _)
SumOfGroup(b, i) ==
    IF i > Len(orderItems) THEN 0
    ELSE (IF orderItems[i].book_id = b THEN orderItems[i].quantity ELSE 0)
         + SumOfGroup(b, i + 1)

\* The books that have order items: the groups of groupBy({ by: ['book_id'] }).
BooksSold == {orderItems[i].book_id : i \in DOMAIN orderItems}

\* genreSales[genreName] = (genreSales[genreName] || 0) + quantity, on the
\* entries of the object in insertion order.
AddSale(entries, genre, quantity) ==
    IF \E k \in DOMAIN entries : entries[k].genre = genre
    THEN [k \in DOMAIN entries |->
             IF entries[k].genre = genre
             THEN [entries[k] EXCEPT !.sales = @ + quantity] ELSE entries[k]]
    ELSE Append(entries, [genre |-> genre, sales |-> quantity])

\* Lines 320-327: the loop over the first n groups.
RECURSIVE GenreSales(_, _)
GenreSales(genreStats, n) ==
    IF n = 0 THEN <<>>
    ELSE LET stat == genreStats[n]
             rest == GenreSales(genreStats, n - 1)
         IN IF stat.book_id \in DOMAIN books /\ books[stat.book_id].genre_id \in DOMAIN genres
            THEN AddSale(rest, genres[books[stat.book_id].genre_id].name, stat.quantity)
            ELSE rest

\* The value of a property key that is a canonical array index, -1 for any
\* other key.
ArrayIndex(key) == CASE key = "7" -> 7 [] key = "12" -> 12 [] OTHER -> -1

\* Object.entries(genreSales): the keys that are array indices first, in
\* ascending numeric order, then the other keys in insertion order.
ObjectEntries(entries) ==
    LET indices == {k \in DOMAIN entries : ArrayIndex(entries[k].genre) >= 0}
        ascending == CHOOSE seq \in Orderings(indices) :
                        \A i, j \in DOMAIN seq :
                           i < j => ArrayIndex(entries[seq[i]].genre)
                                       < ArrayIndex(entries[seq[j]].genre)
        IsName(e) == ArrayIndex(e.genre) < 0
    IN [i \in DOMAIN ascending |-> entries[ascending[i]]] \o SelectSeq(entries, IsName)

\* Lines 329-343: the loop over the first n entries; minSales starts at
\* Infinity.
RECURSIVE Extremes(_, _)
Extremes(entries, n) ==
    IF n = 0 THEN [most |-> "", max |-> 0, fewest |-> "", infinite |-> TRUE, min |-> 0]
    ELSE LET acc == Extremes(entries, n - 1)
             e == entries[n]
             a == IF e.sales > acc.max
                  THEN [acc EXCEPT !.most = e.genre, !.max = e.sales] ELSE acc
         IN IF acc.infinite \/ e.sales < acc.min
            THEN [a EXCEPT !.fewest = e.genre, !.infinite = FALSE, !.min = e.sales]
            ELSE a

\* name || 'N/A' without the default.
OrEmpty(name) == name

\* name || 'N/A'
OrNA(name) == IF name = "" THEN "N/A" ELSE name

\* Lines 276: prisma.order.count().
getTransactionStatistics_count(p) ==
    /\ Arrives(p)
    /\ UNCHANGED db
    /\ Continue(p, [pc |-> "getTransactionStatistics_findMany", req |-> EmptyBody,
                    totalTransactions |-> Cardinality(DOMAIN orders)])

\* Lines 278-302: the orders with their items and books, and the average.
getTransactionStatistics_findMany(p) ==
    /\ At(p, "getTransactionStatistics_findMany")
    /\ UNCHANGED db
    /\ Continue(p, [slots[p] EXCEPT !.pc = "getTransactionStatistics_groupBy"]
                   @@ [averageTransactionAmount |->
                          AverageTransactionAmount(TotalAmount(1),
                                                   slots[p].totalTransactions)])

\* Lines 304-309: the groups, in an order of the database's choice.
getTransactionStatistics_groupBy(p) ==
    /\ At(p, "getTransactionStatistics_groupBy")
    /\ UNCHANGED db
    /\ \E order \in Orderings(BooksSold) :
          Continue(p, [slots[p] EXCEPT !.pc = "getTransactionStatistics_books"]
                      @@ [genreStats |->
                             [i \in DOMAIN order |->
                                 [book_id |-> order[i],
                                  quantity |-> SumOfGroup(order[i], 1)]]])

\* Lines 311-355: the books of the groups with their genres, and the answer.
getTransactionStatistics_books(p) ==
    /\ At(p, "getTransactionStatistics_books")
    /\ UNCHANGED db
    /\ LET genreSales == ObjectEntries(GenreSales(slots[p].genreStats,
                                                  Len(slots[p].genreStats)))
           x == Extremes(genreSales, Len(genreSales))
       IN Respond(p, Reply(p, "getTransactionStatistics", slots[p].req, 200,
                           "Get transactions statistics successfully",
                           [total_transactions |-> slots[p].totalTransactions,
                            average_transaction_amount |-> slots[p].averageTransactionAmount,
                            most_book_sales_genre |-> OrNA(x.most),
                            fewest_book_sales_genre |-> OrNA(x.fewest)]))

\* Databases for the statistics: no order, or up to MaxStatOrders orders of
\* one or two line items, over books of two genres, one of them named by a
\* number.
MaxStatOrders == 2
StatGenres == [InitGenres EXCEPT !["g2"].name = "7"]
StatBooks == [InitBooks EXCEPT !["b2"].genre_id = "g2"]
StatItems ==
    [book_id : {"b1", "b2"}, quantity : {1, 2}] \cup {[book_id |-> "b3", quantity |-> 1]}
StatItemLists ==
    {<<i>> : i \in StatItems}
    \cup {<<i, j>> : i \in {x \in StatItems : x.book_id = "b1"},
                     j \in {x \in StatItems : x.book_id # "b1"}}
    \cup {<<i, j>> : i \in {x \in StatItems : x.book_id = "b2"},
                     j \in {x \in StatItems : x.book_id = "b3"}}

\* The OrderItem rows of the orders whose line items are `lists`.
RECURSIVE StatOrderItems(_, _)
StatOrderItems(lists, n) ==
    IF n = 0 THEN <<>>
    ELSE StatOrderItems(lists, n - 1)
         \o [i \in DOMAIN lists[n] |->
                [order_id |-> OrderIdSeq[n], book_id |-> lists[n][i].book_id,
                 quantity |-> lists[n][i].quantity]]

InitStatistics ==
    /\ users = InitUsers
    /\ genres = StatGenres
    /\ books = StatBooks
    /\ \E n \in 0..MaxStatOrders :
          /\ orders = [o \in {OrderIdSeq[i] : i \in 1..n} |->
                           [user_id |-> "u1", created_at |-> 1]]
          /\ \E lists \in [1..n -> StatItemLists] :
                orderItems = StatOrderItems(lists, n)
    /\ slots = [p \in Procs |-> IF p = ProcSeq[1] THEN Idle ELSE Done]
    /\ response = NoResponse
    /\ requests = [p \in Procs |-> NoRequest]

\* Databases and queries for the list of transactions: up to MaxListOrders
\* orders of different amounts, created in the order of their ids, and every
\* combination of a page, a limit and a sort.
MaxListOrders == 4
TransactionItemLists ==
    {<<[book_id |-> "b1", quantity |-> 1]>>, <<[book_id |-> "b2", quantity |-> 1]>>,
     <<[book_id |-> "b1", quantity |-> 2]>>,
     <<[book_id |-> "b1", quantity |-> 1], [book_id |-> "b2", quantity |-> 1]>>}
SortedQueries ==
    {a @@ b @@ c :
        a \in {EmptyBody, [page |-> "2"], [page |-> "3"], [page |-> "abc"]},
        b \in {EmptyBody, [limit |-> "1"], [limit |-> "2"]},
        c \in {EmptyBody, [orderByAmount |-> "asc"], [orderByAmount |-> "desc"],
               [orderById |-> "asc"], [orderById |-> "desc"]}}

InitTransactions ==
    /\ users = InitUsers
    /\ genres = InitGenres
    /\ books = InitBooks
    /\ \E n \in 0..MaxListOrders :
          /\ orders = [o \in {OrderIdSeq[i] : i \in 1..n} |->
                           [user_id |-> "u1", created_at |-> IdRank(o)]]
          /\ \E lists \in [1..n -> TransactionItemLists] :
                orderItems = StatOrderItems(lists, n)
    /\ slots = [p \in Procs |-> IF p = ProcSeq[1] THEN Idle ELSE Done]
    /\ response = NoResponse
    /\ requests = [p \in Procs |-> NoRequest]

---------------------------------------------------------------------------
(* authMiddleware (middlewares/authMiddleware.ts) *)

\* process.env.JWT_SECRET
JWT_SECRET == "secret"

\* A token: its payload, whether its signature is of JWT_SECRET, and whether
\* its exp has passed.
Token(payload, signed, expired) ==
    [payload |-> payload, signed |-> signed, expired |-> expired]

\* The payload login signs (controllers/authController.ts, lines 93-97).
LoginPayload == [id |-> "u1", email |-> "a@b.com"]

\* The Authorization header: absent, or a scheme and a token.
NoHeader == [absent |-> TRUE]
Header(scheme, token) == [scheme |-> scheme, token |-> token]

\* No header, a header without the Bearer prefix, and Bearer headers with a
\* token that verifies, one of another signature and an expired one.
AuthHeaders ==
    {NoHeader,
     Header("Basic", Token(LoginPayload, TRUE, FALSE)),
     Header("Bearer", Token(LoginPayload, TRUE, FALSE)),
     Header("Bearer", Token(LoginPayload, FALSE, FALSE)),
     Header("Bearer", Token(LoginPayload, TRUE, TRUE))}

\* jwt.verify without the check of exp.
VerifiesIgnoringExpiry(token) == token.signed

\* jwt.verify(token, process.env.JWT_SECRET) returns the payload: it throws
\* JsonWebTokenError for a signature that is not of the secret, and
\* TokenExpiredError, a JsonWebTokenError too, for a token past its exp.
Verifies(token) == token.signed /\ ~token.expired

\* Lines 11-69, before the handler `next` of the route: the request object of
\* slot p gets the header, and req.user when the token verifies.
authMiddleware(p, auth, next) ==
    LET re(status, message) ==
            /\ Arrives(p)
            /\ UNCHANGED db
            /\ requests' = [requests EXCEPT ![p] = [authorization |-> auth]]
            /\ Respond(p, Reply(p, "authMiddleware", EmptyBody, status, message, NoData))
    IN IF auth = NoHeader
       THEN re(401, "Token tidak ditemukan")
       ELSE IF auth.scheme # "Bearer"
       THEN re(401, "Format token tidak valid. Gunakan: Bearer <token>")
       ELSE IF JWT_SECRET = ""
       THEN re(500, "Server configuration error")
       ELSE IF ~Verifies(auth.token)
       THEN re(401, "Token tidak valid")
       ELSE /\ requests' = [requests EXCEPT ![p] = [authorization |-> auth,
                                                    user |-> auth.token.payload]]
            /\ next

\* The headers of GET /auth/me: also tokens of the other payloads.
MeHeaders ==
    AuthHeaders \cup {Header("Bearer", Token(r.user, TRUE, FALSE)) : r \in GetMeRequests}

---------------------------------------------------------------------------
(* Specifications *)

\* Every handler's steps.
Next ==
    \/ \E p \in Procs : Arrives(p) /\ \E auth \in AuthHeaders :
          authMiddleware(p, auth, \E body \in OrderBodies : createTransaction_check(p, body))
    \/ \E p \in Procs : createTransaction_tx(p) /\ UNCHANGED requests
    \/ \E p \in Procs : Arrives(p) /\ \E auth \in AuthHeaders :
          authMiddleware(p, auth, \E body \in BookBodies : createBook_genre(p, body))
    \/ \E p \in Procs : createBook_find(p) /\ UNCHANGED requests
    \/ \E p \in Procs : createBook_restore(p) /\ UNCHANGED requests
    \/ \E p \in Procs : createBook_create(p) /\ UNCHANGED requests
    \/ \E p \in Procs : Arrives(p) /\ \E auth \in AuthHeaders :
          authMiddleware(p, auth, \E req \in UpdateBookRequests : updateBook_find(p, req))
    \/ \E p \in Procs : updateBook_update(p) /\ UNCHANGED requests
    \/ \E p \in Procs : Arrives(p) /\ \E auth \in AuthHeaders :
          authMiddleware(p, auth, \E req \in [book_id : BookRefs] : deleteBook_find(p, req))
    \/ \E p \in Procs : deleteBook_update(p) /\ UNCHANGED requests
    \/ \E p \in Procs : Arrives(p) /\ \E auth \in AuthHeaders :
          authMiddleware(p, auth, \E body \in GenreBodies : createGenre_find(p, body))
    \/ \E p \in Procs : createGenre_create(p) /\ UNCHANGED requests
    \/ \E p \in Procs : Arrives(p) /\ \E auth \in AuthHeaders :
          authMiddleware(p, auth, \E req \in UpdateGenreRequests : updateGenre_find(p, req))
    \/ \E p \in Procs : updateGenre_duplicate(p) /\ UNCHANGED requests
    \/ \E p \in Procs : updateGenre_update(p) /\ UNCHANGED requests
    \/ \E p \in Procs : Arrives(p) /\ \E auth \in AuthHeaders :
          authMiddleware(p, auth, \E req \in [genre_id : GenreRefs] : deleteGenre_find(p, req))
    \/ \E p \in Procs : deleteGenre_update(p) /\ UNCHANGED requests
    \/ \E p \in Procs : Arrives(p) /\ \E query \in ListQueries : getAllBooks(p, query) /\ UNCHANGED requests
    \/ \E p \in Procs : getAllBooks_findMany(p) /\ UNCHANGED requests
    \/ \E p \in Procs : getAllBooks_count(p) /\ UNCHANGED requests
    \/ \E p \in Procs : Arrives(p) /\ \E req \in ListByGenreRequests : getBooksByGenre(p, req) /\ UNCHANGED requests
    \/ \E p \in Procs : getBooksByGenre_findMany(p) /\ UNCHANGED requests
    \/ \E p \in Procs : getBooksByGenre_count(p) /\ UNCHANGED requests
    \/ \E p \in Procs : \E req \in [book_id : BookRefs] : getBookById(p, req) /\ UNCHANGED requests
    \/ \E p \in Procs : Arrives(p) /\ \E query \in ListQueries : getAllGenres(p, query) /\ UNCHANGED requests
    \/ \E p \in Procs : getAllGenres_findMany(p) /\ UNCHANGED requests
    \/ \E p \in Procs : getAllGenres_count(p) /\ UNCHANGED requests
    \/ \E p \in Procs : \E req \in [genre_id : GenreRefs] : getGenreById(p, req) /\ UNCHANGED requests
    \/ \E p \in Procs : Arrives(p) /\ \E auth \in AuthHeaders :
          authMiddleware(p, auth, \E req \in [transaction_id : OrderRefs] : getTransactionById(p, req))
    \/ \E p \in Procs : Arrives(p) /\ \E auth \in AuthHeaders :
          authMiddleware(p, auth, \E query \in TransactionQueries : getAllTransactions_count(p, query))
    \/ \E p \in Procs : getAllTransactions_findMany(p) /\ UNCHANGED requests
    \/ \E p \in Procs : Arrives(p) /\ \E body \in RegisterBodies : register_find(p, body) /\ UNCHANGED requests
    \/ \E p \in Procs : register_create(p) /\ UNCHANGED requests
    \/ \E p \in Procs : Arrives(p) /\ \E body \in LoginBodies : login(p, body) /\ UNCHANGED requests
    \/ \E p \in Procs : Arrives(p) /\ \E auth \in MeHeaders :
          authMiddleware(p, auth, getMe(p, [user |-> auth.token.payload]))
    \/ \E p \in Procs : Arrives(p) /\ \E auth \in AuthHeaders :
          authMiddleware(p, auth, getTransactionStatistics_count(p))
    \/ \E p \in Procs : getTransactionStatistics_findMany(p) /\ UNCHANGED requests
    \/ \E p \in Procs : getTransactionStatistics_groupBy(p) /\ UNCHANGED requests
    \/ \E p \in Procs : getTransactionStatistics_books(p) /\ UNCHANGED requests
    \/ ResponseSent

Spec == Init /\ [][Next]_vars

\* Only orders are placed.
NextOrders ==
    \/ \E p \in Procs : Arrives(p) /\ \E auth \in AuthHeaders :
          authMiddleware(p, auth, \E body \in OrderBodies : createTransaction_check(p, body))
    \/ \E p \in Procs : createTransaction_tx(p) /\ UNCHANGED requests
    \/ ResponseSent

SpecOrders == Init /\ [][NextOrders]_vars

\* Line items of any sign: the body is not validated beyond items being a
\* non-empty array (line 13), so a quantity may be zero or negative.
SignedItems == [book_id : {"b1", "b2"}, quantity : (0 - MaxQuantity)..MaxQuantity]
SignedOrderBodies ==
    {[user_id |-> "u1", items |-> Array(l)] : l \in [1..1 -> SignedItems]}
    \cup {[user_id |-> "u1", items |-> Array(<<[book_id |-> "b2", quantity |-> 1], it>>)] :
             it \in SignedItems}
    \cup {[user_id |-> "uX", items |-> Array(<<it, it>>)] :
             it \in {i \in SignedItems : i.quantity = 1}}

\* Only orders are placed, with quantities of any sign.
NextSignedOrders ==
    \/ \E p \in Procs : Arrives(p) /\ \E auth \in AuthHeaders :
          authMiddleware(p, auth,
                         \E body \in SignedOrderBodies : createTransaction_check(p, body))
    \/ \E p \in Procs : createTransaction_tx(p) /\ UNCHANGED requests
    \/ ResponseSent

SpecSignedOrders == Init /\ [][NextSignedOrders]_vars

\* Only statistics are asked for, of a database that does not change.
NextStatistics ==
    \/ \E p \in Procs : Arrives(p) /\ \E auth \in AuthHeaders :
          authMiddleware(p, auth, getTransactionStatistics_count(p))
    \/ \E p \in Procs : getTransactionStatistics_findMany(p) /\ UNCHANGED requests
    \/ \E p \in Procs : getTransactionStatistics_groupBy(p) /\ UNCHANGED requests
    \/ \E p \in Procs : getTransactionStatistics_books(p) /\ UNCHANGED requests
    \/ ResponseSent

SpecStatistics == InitStatistics /\ [][NextStatistics]_vars

\* Only the list of transactions is asked for, of a database that does not
\* change.
NextTransactions ==
    \/ \E p \in Procs : Arrives(p) /\ \E auth \in AuthHeaders :
          authMiddleware(p, auth, \E query \in SortedQueries : getAllTransactions_count(p, query))
    \/ \E p \in Procs : getAllTransactions_findMany(p) /\ UNCHANGED requests
    \/ ResponseSent

SpecTransactions == InitTransactions /\ [][NextTransactions]_vars

\* Only the pagination helper is called.
NextPagination ==
    \/ \E p \in Procs : Arrives(p) /\ \E query \in PaginationQueries : getPaginationParams_call(p, query) /\ UNCHANGED requests
    \/ \E p \in Procs : Arrives(p) /\ \E call \in MetaCalls : createMeta_call(p, call) /\ UNCHANGED requests
    \/ ResponseSent

SpecPagination == Init /\ [][NextPagination]_vars

---------------------------------------------------------------------------
(* Steps, as the properties below name them *)

\* Slot p took this step.
Steps(p) == slots'[p] # slots[p]

\* This step answered slot p's request.
Answers(p) == response'.p = p

\* Slot p took this step from position pc.
StepsFrom(p, pc) == slots[p].pc = pc /\ Steps(p)

\* This step is createTransaction's first, for slot p.
ChecksOrder(p) ==
    /\ StepsFrom(p, "idle")
    /\ \/ Answers(p) /\ response'.op = "createTransaction"
       \/ slots'[p].pc = "createTransaction_tx"

\* The request slot p's first step received.
Received(p) == IF Answers(p) THEN response'.req ELSE slots'[p].req

\* The quantity ordered of book b by these line items.
RECURSIVE Ordered(_, _, _)
Ordered(items, b, i) ==
    IF i > Len(items) THEN 0
    ELSE (IF items[i].book_id = b THEN items[i].quantity ELSE 0)
         + Ordered(items, b, i + 1)

---------------------------------------------------------------------------
(* C1..C10 *)

\* C1: in every reachable state every Book row has stock_quantity >= 0.
C1_StockNeverNegative ==
    \A b \in DOMAIN books : books[b].stock_quantity >= 0

\* The units of book b sold by the orders placed since the start.
RECURSIVE SoldFrom(_, _)
SoldFrom(b, i) ==
    IF i > Len(orderItems) THEN 0
    ELSE (IF orderItems[i].book_id = b /\ orderItems[i].order_id \notin DOMAIN InitOrders
          THEN orderItems[i].quantity ELSE 0)
         + SoldFrom(b, i + 1)

\* C2: when only createTransaction requests run, from stock s, the quantities
\* of the orders placed for a book sum to at most s, and the book's stock is s
\* minus that sum.
C2_NoOverselling ==
    \A b \in DOMAIN books :
        /\ SoldFrom(b, 1) <= InitBooks[b].stock_quantity
        /\ books[b].stock_quantity = InitBooks[b].stock_quantity - SoldFrom(b, 1)

\* A line item of the request asks for more than the stock of its book.
ExceedsStock(body) ==
    /\ Has(body, "items")
    /\ body.items.array
    /\ \E i \in DOMAIN body.items.elems :
          LET item == body.items.elems[i]
          IN /\ item.book_id \in DOMAIN books
             /\ Has(item, "quantity")
             /\ item.quantity > books[item.book_id].stock_quantity

\* The request passes the checks that come before the stock check: it has a
\* user id and a list of items, the user exists, and the items name
\* different books that exist and are not soft-deleted.
PassesLookups(body) ==
    /\ ~InvalidOrderBody(body)
    /\ body.user_id \in DOMAIN users
    /\ \A i \in DOMAIN body.items.elems : ActiveBook(body.items.elems[i].book_id)
    /\ \A i, j \in DOMAIN body.items.elems :
          body.items.elems[i].book_id = body.items.elems[j].book_id => i = j

\* C3 as claimed: every createTransaction request with a line item whose
\* quantity exceeds the book's stock when the handler checks it is answered
\* 400 and changes nothing.
C3_AsClaimed ==
    [][\A p \in Procs :
          (ChecksOrder(p) /\ ExceedsStock(Received(p)))
          => /\ Answers(p)
             /\ response'.status = 400
             /\ UNCHANGED db]_vars

\* C3, amended: a createTransaction request that passes the user and book
\* lookups and has a line item whose quantity exceeds the stock the handler
\* reads is answered 400 "Insufficient stock", and no table changes.
C3_InsufficientStockRejected ==
    [][\A p \in Procs :
          (ChecksOrder(p) /\ PassesLookups(Received(p)) /\ ExceedsStock(Received(p)))
          => /\ Answers(p)
             /\ response'.status = 400
             /\ response'.message = "Insufficient stock for book"
             /\ UNCHANGED db]_vars

\* C3's case: a two-item order is refused for its second item while its first
\* item had enough stock.
C3_Witness ==
    /\ response.op = "createTransaction"
    /\ response.status = 400
    /\ response.message = "Insufficient stock for book"
    /\ Len(response.req.items.elems) = 2
    /\ Has(response.req.items.elems[1], "quantity")
    /\ books[response.req.items.elems[1].book_id].stock_quantity
          >= response.req.items.elems[1].quantity
    /\ response.data.title = books[response.req.items.elems[2].book_id].title

\* The whole effect of slot p's order: one Order row, one OrderItem row per
\* line item in order, and every book's stock lowered by what was ordered.
OrderPlaced(p) ==
    LET body == slots[p].req
        items == body.items.elems
        oid == response'.data.transaction_id
    IN /\ oid \notin DOMAIN orders
       /\ DOMAIN orders' = DOMAIN orders \cup {oid}
       /\ \A o \in DOMAIN orders : orders'[o] = orders[o]
       /\ orders'[oid].user_id = body.user_id
       /\ orderItems' = orderItems \o
             [i \in DOMAIN items |->
                 [order_id |-> oid, book_id |-> items[i].book_id,
                  quantity |-> items[i].quantity]]
       /\ DOMAIN books' = DOMAIN books
       /\ \A b \in DOMAIN books :
             books'[b] = [books[b] EXCEPT !.stock_quantity = @ - Ordered(items, b, 1)]

\* C4: the step of createTransaction's database transaction either places the
\* whole order and answers 201, or changes nothing and answers 500; and no
\* other step changes the Order and OrderItem tables.
C4_AllOrNothing ==
    [][/\ \A p \in Procs :
            StepsFrom(p, "createTransaction_tx")
            => /\ Answers(p)
               /\ \/ response'.status = 201 /\ OrderPlaced(p)
                  \/ response'.status = 500 /\ UNCHANGED db
       /\ (orders' # orders \/ orderItems' # orderItems)
            => \E p \in Procs : StepsFrom(p, "createTransaction_tx")]_vars

\* C4's case: the transaction of a well-formed order failed in the database.
C4_Witness ==
    /\ response.op = "createTransaction"
    /\ response.status = 500
    /\ \A i \in DOMAIN response.req.items.elems :
          Has(response.req.items.elems[i], "quantity")

\* Slot p's step is the database transaction of its order, and it committed.
CommitsOrder(p) ==
    /\ StepsFrom(p, "createTransaction_tx")
    /\ response'.status = 201

\* Slot p's step writes a requested stock_quantity to book b: the update of
\* updateBook, or the restore of createBook.
WritesStock(p, b) ==
    \/ /\ StepsFrom(p, "updateBook_update")
       /\ slots[p].req.book_id = b
       /\ Has(slots[p].req.body, "stock_quantity")
       /\ books'[b].stock_quantity = slots[p].req.body.stock_quantity
    \/ /\ StepsFrom(p, "createBook_restore")
       /\ slots[p].existingBook = b
       /\ books'[b].stock_quantity = slots[p].req.stock_quantity

MalformedItems(body) ==
    \E i \in DOMAIN body.items.elems : ~Has(body.items.elems[i], "quantity")

\* The status C6 gives a request, the checks taken in the handler's order;
\* 0 for a request that C6 does not reject.
C6_Status(body) ==
    IF InvalidOrderBody(body) THEN 400
    ELSE IF body.user_id \notin DOMAIN users THEN 404
    ELSE IF \E i \in DOMAIN body.items.elems : ~ActiveBook(body.items.elems[i].book_id)
         THEN 404
    ELSE IF MalformedItems(body) THEN 400
    ELSE 0

\* C6: createTransaction's first step answers 400 to a request without
\* user_id or with a missing, non-array, empty or malformed items list, 404 to
\* an unknown user and 404 to a book id that is absent or soft-deleted, and
\* changes no table.
C6_RejectsBeforeWriting ==
    [][\A p \in Procs :
          (ChecksOrder(p) /\ C6_Status(Received(p)) # 0)
          => /\ Answers(p)
             /\ response'.status = C6_Status(Received(p))
             /\ UNCHANGED db]_vars

\* The sum of a sequence of numbers from index i.
RECURSIVE SumFrom(_, _)
SumFrom(seq, i) == IF i > Len(seq) THEN 0 ELSE seq[i] + SumFrom(seq, i + 1)

\* C7: the first step of a createTransaction that goes on to its transaction
\* loads the rows of the ordered books as they are; the transaction that
\* commits answers 201 with total_quantity the sum of the quantities and
\* total_price the sum of quantity times the loaded price of the book, and
\* the OrderItem rows it inserted carry the book ids and the quantities of
\* the request, in order.
C7_TotalsAndItems ==
    [][\A p \in Procs :
          /\ (ChecksOrder(p) /\ ~Answers(p))
             => \A i \in DOMAIN slots'[p].req.items.elems :
                   LET b == slots'[p].req.items.elems[i].book_id
                   IN slots'[p].books[b] = books[b]
          /\ CommitsOrder(p)
             => LET items == slots[p].req.items.elems
                    rows == slots[p].books
                    oid == response'.data.transaction_id
                    new == SelectSeq(orderItems', LAMBDA it : it.order_id = oid)
                IN /\ response'.data.total_quantity
                         = SumFrom([i \in DOMAIN items |-> items[i].quantity], 1)
                   /\ response'.data.total_price
                         = SumFrom([i \in DOMAIN items |->
                                       items[i].quantity * rows[items[i].book_id].price], 1)
                   /\ SelectSeq(orderItems, LAMBDA it : it.order_id = oid) = <<>>
                   /\ [i \in DOMAIN new |->
                          [book_id |-> new[i].book_id, quantity |-> new[i].quantity]]
                         = items]_vars

\* C7's case: an order of two line items with different quantities was placed.
C7_Witness ==
    /\ response.op = "createTransaction"
    /\ response.status = 201
    /\ Len(response.req.items.elems) = 2
    /\ response.req.items.elems[1].quantity # response.req.items.elems[2].quantity
    /\ response.data.total_quantity = 3
    /\ response.data.transaction_id \in DOMAIN orders

\* This step is createBook's first, for slot p.
ChecksBook(p) ==
    /\ StepsFrom(p, "idle")
    /\ \/ Answers(p) /\ response'.op = "createBook"
       \/ slots'[p].pc = "createBook_find"

\* This step is createGenre's first, for slot p.
ChecksGenre(p) ==
    /\ StepsFrom(p, "idle")
    /\ \/ Answers(p) /\ response'.op = "createGenre"
       \/ slots'[p].pc = "createGenre_create"

\* A non-deleted Book row has this title.
ActiveTitle(title) ==
    \E b \in DOMAIN books : books[b].title = title /\ books[b].deleted_at = Null

\* A non-deleted Genre row has this name.
ActiveName(name) ==
    \E g \in DOMAIN genres : genres[g].name = name /\ genres[g].deleted_at = Null

\* C8 as claimed: a createGenre or createBook request whose name or title is
\* that of a non-deleted row is answered 400 and changes nothing.
C8_AsClaimed ==
    [][\A p \in Procs :
          /\ (ChecksGenre(p) /\ Has(Received(p), "name") /\ ActiveName(Received(p).name))
             => Answers(p) /\ response'.status = 400 /\ UNCHANGED db
          /\ (ChecksBook(p) /\ Has(Received(p), "title") /\ ActiveTitle(Received(p).title))
             => (Answers(p) => response'.status = 400) /\ UNCHANGED db]_vars

\* C8, amended: a createGenre request whose name is that of a non-deleted row
\* is answered 400 "Genre name already exists"; a createBook request that
\* carries its required fields and names a non-deleted genre goes on to the
\* title lookup, and when that finds a non-deleted row with the title the
\* answer is 400 "Book with this title already exists"; in both cases no
\* table changes.
C8_DuplicateRejected ==
    [][\A p \in Procs :
          /\ (ChecksGenre(p) /\ Has(Received(p), "name") /\ ActiveName(Received(p).name))
             => /\ Answers(p)
                /\ response'.status = 400
                /\ response'.message = "Genre name already exists"
                /\ UNCHANGED db
          /\ (ChecksBook(p) /\ ~MissingBookFields(Received(p))
                /\ ActiveGenre(Received(p).genre_id))
             => ~Answers(p) /\ UNCHANGED db
          /\ (StepsFrom(p, "createBook_find") /\ ActiveTitle(slots[p].req.title))
             => /\ Answers(p)
                /\ response'.status = 400
                /\ response'.message = "Book with this title already exists"
                /\ UNCHANGED db]_vars

\* C8's case: a createBook was refused for the title of a non-deleted book.
C8_Witness ==
    /\ response.op = "createBook"
    /\ response.status = 400
    /\ response.message = "Book with this title already exists"
    /\ ActiveTitle(response.req.title)
    /\ ActiveGenre(response.req.genre_id)

\* The request's description, '' when it has none.
RequestedDescription(body) ==
    IF Has(body, "description") THEN body.description ELSE ""

\* C9: a createBook request that carries its required fields and names a
\* non-deleted genre goes on to the title lookup; when the lookup finds a
\* soft-deleted row with the title, the next step restores it: the row keeps
\* its id, title and created_at, deleted_at becomes null, the other fields
\* take the request's values, no row is inserted, nothing else changes and
\* the answer is 200.
C9_RestoresSoftDeleted ==
    [][\A p \in Procs :
          /\ (ChecksBook(p) /\ ~MissingBookFields(Received(p))
                /\ ActiveGenre(Received(p).genre_id))
             => slots'[p].pc = "createBook_find" /\ slots'[p].req = Received(p)
          /\ (StepsFrom(p, "createBook_find")
                /\ \E b \in DOMAIN books :
                      books[b].title = slots[p].req.title /\ books[b].deleted_at # Null)
             => /\ slots'[p].pc = "createBook_restore"
                /\ slots'[p].req = slots[p].req
                /\ books[slots'[p].existingBook].title = slots[p].req.title
                /\ books[slots'[p].existingBook].deleted_at # Null
          /\ StepsFrom(p, "createBook_restore")
             => LET body == slots[p].req
                    id == slots[p].existingBook
                IN /\ Answers(p)
                   /\ response'.status = 200
                   /\ response'.data.id = id
                   /\ DOMAIN books' = DOMAIN books
                   /\ \A b \in DOMAIN books : b # id => books'[b] = books[b]
                   /\ books'[id] =
                         [title |-> books[id].title, created_at |-> books[id].created_at,
                          deleted_at |-> Null, writer |-> body.writer,
                          publisher |-> body.publisher,
                          description |-> RequestedDescription(body),
                          publication_year |-> body.publication_year,
                          price |-> body.price, stock_quantity |-> body.stock_quantity,
                          genre_id |-> body.genre_id]
                   /\ UNCHANGED <<users, genres, orders, orderItems>>]_vars

\* C9's case: a createBook restored the book that was soft-deleted at start.
C9_Witness ==
    /\ response.op = "createBook"
    /\ response.status = 200
    /\ response.data.id \in DOMAIN InitBooks
    /\ InitBooks[response.data.id].deleted_at # Null
    /\ books[response.data.id].deleted_at = Null
    /\ books[response.data.id].price = response.req.price
    /\ Cardinality(DOMAIN books) = Cardinality(DOMAIN InitBooks)

\* Slot p's step is the findMany of a list handler.
FindsMany(p) ==
    /\ slots[p].pc \in {"getAllBooks", "getBooksByGenre", "getAllGenres"}
    /\ Steps(p)
    /\ ~Has(slots[p], "rows")
    /\ (Answers(p) /\ response'.status = 200) \/ Has(slots'[p], "rows")

\* The rows that findMany returned.
RowsFound(p) == IF Answers(p) THEN response'.data.rows ELSE slots'[p].rows

\* C10: a findMany of a list handler returns no row that is soft-deleted when
\* it runs, and getBookById and getGenreById answer 404 for such a row; a
\* delete keeps the row and changes only its deleted_at, no step removes a
\* row, and only the restore of createBook clears a deleted_at;
\* getTransactionById answers 200 with every item of the order, whether or
\* not the item's book is soft-deleted.
C10_SoftDeletedHidden ==
    [][/\ \A p \in Procs :
            /\ FindsMany(p)
               => \A i \in DOMAIN RowsFound(p) :
                     IF slots[p].pc = "getAllGenres"
                     THEN ActiveGenre(RowsFound(p)[i].id)
                     ELSE ActiveBook(RowsFound(p)[i].id)
            /\ (Answers(p) /\ StepsFrom(p, "idle") /\ response'.op = "getBookById"
                  /\ ~ActiveBook(response'.req.book_id))
               => response'.status = 404
            /\ (Answers(p) /\ StepsFrom(p, "idle") /\ response'.op = "getGenreById"
                  /\ ~ActiveGenre(response'.req.genre_id))
               => response'.status = 404
            /\ StepsFrom(p, "deleteBook_update")
               => /\ response'.status = 200
                  /\ books'[slots[p].req.book_id].deleted_at # Null
                  /\ \A f \in DOMAIN books[slots[p].req.book_id] \ {"deleted_at"} :
                        books'[slots[p].req.book_id][f] = books[slots[p].req.book_id][f]
            /\ StepsFrom(p, "deleteGenre_update")
               => /\ response'.status = 200
                  /\ genres'[slots[p].req.genre_id].deleted_at # Null
                  /\ genres'[slots[p].req.genre_id].name = genres[slots[p].req.genre_id].name
            /\ (Answers(p) /\ StepsFrom(p, "idle") /\ response'.op = "getTransactionById"
                  /\ response'.req.transaction_id \in DOMAIN orders)
               => LET mine == SelectSeq(orderItems,
                                 LAMBDA it : it.order_id = response'.req.transaction_id)
                  IN /\ response'.status = 200
                     /\ [i \in DOMAIN response'.data.items |->
                            [book_id |-> response'.data.items[i].book_id,
                             quantity |-> response'.data.items[i].quantity]]
                          = [i \in DOMAIN mine |->
                               [book_id |-> mine[i].book_id, quantity |-> mine[i].quantity]]
       /\ DOMAIN books \subseteq DOMAIN books'
       /\ DOMAIN genres \subseteq DOMAIN genres'
       /\ \A g \in DOMAIN genres : genres[g].deleted_at # Null => genres'[g].deleted_at # Null
       /\ \A b \in DOMAIN books :
             (books[b].deleted_at # Null /\ books'[b].deleted_at = Null)
             => \E p \in Procs :
                   StepsFrom(p, "createBook_restore") /\ slots[p].existingBook = b]_vars

\* C10's case: after a deleteBook, getTransactionById returned the order that
\* holds the deleted book, with its item.
C10_Witness ==
    /\ response.op = "getTransactionById"
    /\ response.status = 200
    /\ \E i \in DOMAIN response.data.items :
          LET b == response.data.items[i].book_id
          IN books[b].deleted_at # Null /\ InitBooks[b].deleted_at = Null

\* C11: in every reachable state no two non-deleted Book rows have the same
\* title and no two non-deleted Genre rows have the same name.
C11_UniqueAmongActive ==
    /\ \A a, b \in DOMAIN books :
          (a # b /\ books[a].deleted_at = Null /\ books[b].deleted_at = Null)
          => books[a].title # books[b].title
    /\ \A g, h \in DOMAIN genres :
          (g # h /\ genres[g].deleted_at = Null /\ genres[h].deleted_at = Null)
          => genres[g].name # genres[h].name

\* C11's case: two concurrent createBook requests with the same new title; the
\* second insert was refused by the database.
C11_Witness ==
    /\ response.op = "createBook"
    /\ response.status = 400
    /\ response.message = "Duplicate field value"
    /\ \E b \in DOMAIN books \ DOMAIN InitBooks :
          books[b].title = response.req.title /\ books[b].deleted_at = Null

\* This step is createGenre's insert, for slot p.
InsertsGenre(p) == StepsFrom(p, "createGenre_create")

\* C12: a createGenre request whose name is held by no non-deleted Genre row
\* is not rejected as a duplicate: its first step goes on to the insert, and
\* the insert answers 201 when the name is still held by no non-deleted row.
C12_DeletedNameReusable ==
    [][\A p \in Procs :
          /\ (ChecksGenre(p) /\ ~FalsyString(Received(p), "name")
                /\ ~ActiveName(Received(p).name))
             => ~Answers(p)
          /\ (InsertsGenre(p) /\ ~ActiveName(slots[p].req.name))
             => response'.status = 201]_vars

\* C13: getPaginationParams returns an integer page >= 1, an integer limit
\* with 1 <= limit <= 100 and skip = (page - 1) * limit >= 0, whatever the
\* page and limit parameters are.
C13_PaginationParamsInRange ==
    response.op = "getPaginationParams"
    => LET r == response.data
       IN /\ ~r.page.nan /\ r.page.val >= 1
          /\ ~r.limit.nan /\ r.limit.val >= 1 /\ r.limit.val <= 100
          /\ ~r.skip.nan /\ r.skip.val = (r.page.val - 1) * r.limit.val
          /\ r.skip.val >= 0
          /\ FalsyString(response.req, "page") => r.page.val = 1
          /\ FalsyString(response.req, "limit") => r.limit.val = 10

\* C14: for page >= 1, limit in 1..100 and total >= 0, createMeta returns
\* prev_page = page - 1 when page > 1 and null otherwise, and next_page =
\* page + 1 when rows remain after page * limit and null otherwise.
C14_MetaPrevNext ==
    response.op = "createMeta"
    => LET c == response.req
           r == response.data
       IN /\ r.page = c.page
          /\ r.limit = c.limit
          /\ r.prev_page = (IF c.page > 1 THEN Num(c.page - 1) ELSE NullValue)
          /\ r.next_page = (IF c.page * c.limit < c.total THEN Num(c.page + 1)
                            ELSE NullValue)

\* C14's case: the last page of a result set, which has no next page.
C14_Witness ==
    /\ response.op = "createMeta"
    /\ response.req.page > 1
    /\ response.req.total > 0
    /\ response.req.page * response.req.limit = response.req.total
    /\ response.data.next_page = NullValue
    /\ response.data.prev_page = Num(response.req.page - 1)

\* The positions of a list handler's slot.
ListPcs == {"getAllBooks", "getBooksByGenre", "getAllGenres"}

\* The rows a list request of slot p ranges over, in the current state.
ResultSet(p) ==
    CASE slots[p].pc = "getAllBooks" -> ActiveBooks
      [] slots[p].pc = "getBooksByGenre" -> BooksOfGenre(slots[p].req.genre_id)
      [] slots[p].pc = "getAllGenres" -> ActiveGenres

\* Slot p's step is the count of a list handler.
Counts(p) ==
    /\ slots[p].pc \in ListPcs
    /\ Steps(p)
    /\ ~Has(slots[p], "total")
    /\ (Answers(p) /\ Has(slots[p], "rows")) \/ Has(slots'[p], "total")

\* The ids of rows found are those at positions skip + 1 .. min(skip + take, N)
\* of the N rows of S: of S newest first for books, of S in some order for
\* genres.
AtPositions(ids, S, pc, skip, take) ==
    LET N == Cardinality(S)
    IN /\ Len(ids) = (IF N <= skip THEN 0 ELSE IF N - skip < take THEN N - skip ELSE take)
       /\ \A i \in DOMAIN ids : ids[i] \in S
       /\ \A i, j \in DOMAIN ids : ids[i] = ids[j] => i = j
       /\ pc # "getAllGenres"
          => \A i \in DOMAIN ids :
                Cardinality({x \in S : books[x].created_at > books[ids[i]].created_at})
                   = skip + i - 1

\* The metadata of page `page` with `limit` rows a page over N rows.
MetaOf(page, limit, N) ==
    [page |-> page, limit |-> limit,
     prev_page |-> IF page > 1 THEN Num(page - 1) ELSE NullValue,
     next_page |-> IF page * limit < N THEN Num(page + 1) ELSE NullValue]

\* The ids of a sequence of rows.
Ids(rows) == [i \in DOMAIN rows |-> rows[i].id]

\* C15 as claimed: the answer of a list handler holds the rows at positions
\* (p-1)*l+1 .. min(p*l, N) of the ordered result set and the metadata of the
\* same N, also when another request changes the rows while it runs: the
\* rows and the metadata are those of the result set when the handler answers.
C15_AsClaimed ==
    [][\A p \in Procs :
          (slots[p].pc \in ListPcs /\ Answers(p) /\ response'.status = 200)
          => /\ AtPositions(Ids(response'.data.rows), ResultSet(p), slots[p].pc,
                            slots[p].skip.val, slots[p].limit.val)
             /\ response'.data.meta
                   = MetaOf(slots[p].page.val, slots[p].limit.val,
                            Cardinality(ResultSet(p)))]_vars

\* C15, amended: the findMany of a list handler returns the rows at positions
\* (p-1)*l+1 .. min(p*l, N) of the ordering of the N rows that are in the
\* result set when it runs; the count gives the number of rows in the result
\* set when it runs, and the metadata is computed from it; when the count's
\* number is the number of rows in the result set as the handler answers, the
\* answer holds the rows and the metadata of that one N.
C15_PagePositions ==
    [][\A p \in Procs :
          /\ (FindsMany(p) /\ ~InvalidPage(slots[p]))
             => /\ AtPositions(Ids(RowsFound(p)), ResultSet(p), slots[p].pc,
                               slots[p].skip.val, slots[p].limit.val)
                /\ slots[p].skip.val = (slots[p].page.val - 1) * slots[p].limit.val
          /\ (Counts(p) /\ ~Answers(p))
             => slots'[p].total = Cardinality(ResultSet(p))
          /\ (Counts(p) /\ Answers(p))
             => /\ response'.data.rows = slots[p].rows
                /\ response'.data.meta
                      = MetaOf(slots[p].page.val, slots[p].limit.val,
                               Cardinality(ResultSet(p)))
          /\ (FindsMany(p) /\ Answers(p))
             => /\ response'.data.meta
                      = MetaOf(slots[p].page.val, slots[p].limit.val, slots[p].total)
                /\ slots[p].total = Cardinality(ResultSet(p))
                   => response'.data.meta
                         = MetaOf(slots[p].page.val, slots[p].limit.val,
                                  Cardinality(ResultSet(p)))]_vars

\* C15's case: page 2 with limit 1 of the two non-deleted books: the answer
\* is the older book, with prev_page 1 and no next page.
C15_Witness ==
    /\ response.op = "getAllBooks"
    /\ response.status = 200
    /\ Has(response.req, "page") /\ response.req.page = "2"
    /\ Has(response.req, "limit") /\ response.req.limit = "1"
    /\ Len(response.data.rows) = 1
    /\ Cardinality(ActiveBooks) = 2
    /\ \A b \in ActiveBooks : books[b].created_at >= books[response.data.rows[1].id].created_at
    /\ response.data.meta.prev_page = Num(1)
    /\ response.data.meta.next_page = NullValue

\* C16: in a database without orders, getTransactionStatistics answers 200
\* with total_transactions 0, average_transaction_amount 0 and "N/A" for both
\* genres, and no other status.
C16_EmptyStatistics ==
    (response.op = "getTransactionStatistics" /\ DOMAIN orders = {})
       => /\ response.status = 200
          /\ response.data = [total_transactions |-> 0,
                              average_transaction_amount |-> 0,
                              most_book_sales_genre |-> "N/A",
                              fewest_book_sales_genre |-> "N/A"]

\* C16's case: the statistics of a database without orders were sent.
C16_Witness ==
    /\ response.op = "getTransactionStatistics"
    /\ DOMAIN orders = {}
    /\ orderItems = <<>>
    /\ response.data.total_transactions = 0

\* The name of the genre of book b.
GenreOf(b) == genres[books[b].genre_id].name

\* The units sold of genre g: the quantities of the items of its books.
Units(g) ==
    SumFrom([i \in DOMAIN orderItems |->
                IF GenreOf(orderItems[i].book_id) = g
                THEN orderItems[i].quantity ELSE 0], 1)

\* The genres that have sales.
GenresSold == {GenreOf(orderItems[i].book_id) : i \in DOMAIN orderItems}

\* The position of the first group, in the order `stats`, of a book of
\* genre g.
FirstGroup(stats, g) ==
    CHOOSE i \in DOMAIN stats :
        /\ GenreOf(stats[i].book_id) = g
        /\ \A j \in DOMAIN stats : GenreOf(stats[j].book_id) = g => i <= j

\* Genre g is the first encountered, in the order `stats`, of the genres
\* in G.
FirstOf(stats, g, G) ==
    g \in G /\ \A h \in G : FirstGroup(stats, g) <= FirstGroup(stats, h)

\* The sum of price times quantity over all order items.
AmountOfOrders ==
    SumFrom([i \in DOMAIN orderItems |->
                books[orderItems[i].book_id].price * orderItems[i].quantity], 1)

\* C17: getTransactionStatistics answers with total_transactions the number
\* of orders, average_transaction_amount the quotient of the sum of price
\* times quantity over all items by the number of orders, rounded to the
\* nearest integer (0 without orders), and as most and fewest genre the genres
\* of the greatest and the least number of units sold, the first encountered
\* among the groups winning a tie.
C17_Statistics ==
    [][\A p \in Procs :
          (StepsFrom(p, "getTransactionStatistics_books") /\ Answers(p)) =>
             LET d == response'.data
                 n == Cardinality(DOMAIN orders)
                 r == d.average_transaction_amount
                 stats == slots[p].genreStats
                 Most == {g \in GenresSold : \A h \in GenresSold : Units(h) <= Units(g)}
                 Fewest == {g \in GenresSold : \A h \in GenresSold : Units(g) <= Units(h)}
             IN /\ response'.status = 200
                /\ d.total_transactions = n
                /\ IF n = 0 THEN r = 0
                   ELSE 2 * n * r - n <= 2 * AmountOfOrders
                        /\ 2 * AmountOfOrders < 2 * n * r + n
                /\ IF GenresSold = {}
                   THEN d.most_book_sales_genre = "N/A"
                        /\ d.fewest_book_sales_genre = "N/A"
                   ELSE FirstOf(stats, d.most_book_sales_genre, Most)
                        /\ FirstOf(stats, d.fewest_book_sales_genre, Fewest)]_vars

\* The handlers of the routes registered with authMiddleware, and the
\* positions of their later steps.
GuardedOps ==
    {"createBook", "updateBook", "deleteBook", "createGenre", "updateGenre",
     "deleteGenre", "createTransaction", "getAllTransactions", "getTransactionById",
     "getTransactionStatistics", "getMe"}

GuardedPcs ==
    {"createBook_find", "createBook_restore", "createBook_create", "updateBook_update",
     "deleteBook_update", "createGenre_create", "updateGenre_duplicate",
     "updateGenre_update", "deleteGenre_update", "createTransaction_tx",
     "getAllTransactions_findMany", "getTransactionStatistics_findMany",
     "getTransactionStatistics_groupBy", "getTransactionStatistics_books"}

\* This step is one of the handler of a guarded route, for slot p.
HandlerRuns(p) ==
    /\ Steps(p)
    /\ \/ Answers(p) /\ response'.op \in GuardedOps
       \/ slots'[p].pc \in GuardedPcs
       \/ slots[p].pc \in GuardedPcs

\* Header h is absent, lacks the Bearer prefix, or carries a token of another
\* signature or an expired one.
BadHeader(h) ==
    \/ h = NoHeader
    \/ h.scheme # "Bearer"
    \/ ~h.token.signed
    \/ h.token.expired

\* Request object r carries a header that is not bad, and as req.user the
\* payload of its token.
Authenticated(r) ==
    /\ r # NoRequest
    /\ ~BadHeader(r.authorization)
    /\ Has(r, "user")
    /\ r.user = r.authorization.token.payload

\* C18: every step of the handler of a guarded route is taken for a request
\* whose header the guard accepted and that carries the decoded identity,
\* from the handler's first step to its last; a request whose header is
\* absent, lacks the Bearer prefix or carries a token of an invalid signature
\* or an expired token is answered 401 by the guard in its first step, with
\* the database unchanged and no handler step taken; and the database
\* changes only in steps of authenticated requests, or of register, which is
\* not guarded.
C18_GuardBeforeHandler ==
    [][\A p \in Procs :
          /\ HandlerRuns(p)
             => /\ Authenticated(requests'[p])
                /\ slots[p].pc # "idle" => requests'[p] = requests[p]
          /\ (StepsFrom(p, "idle") /\ requests'[p] # NoRequest
                 /\ BadHeader(requests'[p].authorization))
             => /\ Answers(p)
                /\ response'.op = "authMiddleware"
                /\ response'.status = 401
                /\ slots'[p] = Done
                /\ db' = db
          /\ (Steps(p) /\ db' # db)
             => \/ Authenticated(requests'[p])
                \/ slots[p].pc = "register_create"]_vars

\* C18's case: an expired token was answered 401 while the request of the
\* other slot, accepted by the guard, waits for its transaction with the
\* decoded identity attached.
C18_Witness ==
    /\ response.op = "authMiddleware"
    /\ response.status = 401
    /\ requests[response.p].authorization = Header("Bearer", Token(LoginPayload, TRUE, TRUE))
    /\ \E p \in Procs :
          /\ slots[p].pc = "createTransaction_tx"
          /\ requests[p].user = LoginPayload

\* C19: in every step the Order rows that exist stay as they are and the
\* OrderItem rows that exist stay as they are, in place; rows are added to
\* the two tables only by the transaction of a createTransaction that answers
\* 201, and then one Order and items of that Order only; and no User, Genre
\* or Book row is removed.
C19_OrdersImmutable ==
    [][/\ \A o \in DOMAIN orders : o \in DOMAIN orders' /\ orders'[o] = orders[o]
       /\ Len(orderItems') >= Len(orderItems)
       /\ \A i \in DOMAIN orderItems : orderItems'[i] = orderItems[i]
       /\ (orders' # orders \/ orderItems' # orderItems)
          => /\ \E p \in Procs :
                   /\ StepsFrom(p, "createTransaction_tx")
                   /\ Answers(p)
                   /\ response'.status = 201
             /\ \E o \in DOMAIN orders' \ DOMAIN orders :
                   /\ DOMAIN orders' = DOMAIN orders \cup {o}
                   /\ \A i \in DOMAIN orderItems' \ DOMAIN orderItems :
                         orderItems'[i].order_id = o
       /\ DOMAIN users \subseteq DOMAIN users'
       /\ DOMAIN genres \subseteq DOMAIN genres'
       /\ DOMAIN books \subseteq DOMAIN books']_vars

\* C19's case: after a second order was placed, the book of the first
\* order's item was deleted: its row is still there, soft-deleted, and so are
\* both orders and the item.
C19_Witness ==
    /\ response.op = "deleteBook"
    /\ response.status = 200
    /\ response.req.book_id = InitOrderItems[1].book_id
    /\ response.req.book_id \in DOMAIN books
    /\ books[response.req.book_id].deleted_at # Null
    /\ Cardinality(DOMAIN orders) = 2
    /\ orderItems[1] = InitOrderItems[1]

\* The sum of price times quantity over the items `its` of order oid, at the
\* prices of the Book table bks.
LiveTotalIn(bks, its, oid) ==
    SumFrom([i \in DOMAIN its |->
                IF its[i].order_id = oid
                THEN bks[its[i].book_id].price * its[i].quantity ELSE 0], 1)

\* The rows createTransaction loaded for slot p still have the prices of the
\* Book table.
PricesCurrent(p) ==
    \A i \in DOMAIN slots[p].req.items.elems :
       LET b == slots[p].req.items.elems[i].book_id
       IN slots[p].books[b].price = books[b].price

\* C20 as claimed: the total_price createTransaction returns for the order it
\* creates is the total at the prices the books have when the order is
\* created, which is what a query of the order reports until a price
\* changes.
C20_AsClaimed ==
    [][\A p \in Procs :
          CommitsOrder(p)
             => response'.data.total_price
                   = LiveTotalIn(books', orderItems', response'.data.transaction_id)]_vars

\* C20: getTransactionById and getAllTransactions report for an order the sum
\* of quantity times the price its books have when the query runs, and
\* getTransactionById each subtotal likewise; the total createTransaction
\* returns is that sum at the creation of the order when no price changed
\* since createTransaction loaded the books; and the sum of an existing
\* order changes only in a step of updateBook or of a createBook restore that
\* changes the price of a book of the order.
C20_LivePrice ==
    [][/\ \A p \in Procs :
             /\ (Answers(p) /\ response'.op = "getTransactionById"
                    /\ response'.status = 200)
                => LET d == response'.data
                       rows == SelectSeq(orderItems, LAMBDA it : it.order_id = d.id)
                   IN /\ d.total_price = LiveTotalIn(books, orderItems, d.id)
                      /\ Len(d.items) = Len(rows)
                      /\ \A i \in DOMAIN rows :
                            d.items[i].subtotal_price
                               = books[rows[i].book_id].price * rows[i].quantity
             /\ (Answers(p) /\ response'.op = "getAllTransactions"
                    /\ response'.status = 200)
                => \A i \in DOMAIN response'.data.rows :
                      response'.data.rows[i].total_price
                         = LiveTotalIn(books, orderItems, response'.data.rows[i].id)
             /\ (CommitsOrder(p) /\ PricesCurrent(p))
                => response'.data.total_price
                      = LiveTotalIn(books', orderItems', response'.data.transaction_id)
       /\ \A o \in DOMAIN orders :
             LiveTotalIn(books', orderItems', o) # LiveTotalIn(books, orderItems, o)
                => \E q \in Procs, i \in DOMAIN orderItems :
                      LET b == orderItems[i].book_id
                      IN /\ orderItems[i].order_id = o
                         /\ books'[b].price # books[b].price
                         /\ \/ StepsFrom(q, "updateBook_update")
                                  /\ slots[q].req.book_id = b
                            \/ StepsFrom(q, "createBook_restore")
                                  /\ books[b].title = slots[q].req.title]_vars

\* C20's case: the price of a book of the first order was changed, and a
\* query of the order reports the total at the new price.
C20_Witness ==
    /\ response.op = "getTransactionById"
    /\ response.status = 200
    /\ response.data.id = "o1"
    /\ \E i \in DOMAIN InitOrderItems :
          books[InitOrderItems[i].book_id].price
             # InitBooks[InitOrderItems[i].book_id].price
    /\ response.data.total_price = LiveTotalIn(books, orderItems, "o1")
    /\ response.data.total_price # LiveTotalIn(InitBooks, InitOrderItems, "o1")

\* This step answers 200 to slot p's getAllTransactions.
ListsOrders(p) ==
    /\ StepsFrom(p, "getAllTransactions_findMany")
    /\ Answers(p)
    /\ response'.status = 200

\* Order a comes before order b in the order the query asks for: by amount
\* when `byAmount`, else by id; orders of equal amount as the rows came, by
\* id when orderById is given and else the newest first.
ComesBefore(a, b, req, byAmount) ==
    LET amount(o) == LiveTotalIn(books, orderItems, o)
        up(param) == req[param] = "asc"
        byId == IF Has(req, "orderById")
                THEN IF up("orderById") THEN IdRank(a) < IdRank(b)
                     ELSE IdRank(a) > IdRank(b)
                ELSE orders[a].created_at > orders[b].created_at
    IN IF byAmount /\ amount(a) # amount(b)
       THEN IF up("orderByAmount") THEN amount(a) < amount(b)
            ELSE amount(a) > amount(b)
       ELSE byId

\* All orders in the order the query asks for.
InOrder(req, byAmount) ==
    CHOOSE S \in Orderings(DOMAIN orders) :
        \A i, j \in DOMAIN S : i < j => ComesBefore(S[i], S[j], req, byAmount)

\* The ids at positions skip + 1 .. skip + limit of S, none when the page or
\* the limit of the request is not a number.
SliceOf(S, l) ==
    IF l.skip.nan \/ l.limit.nan THEN <<>>
    ELSE LET last == IF l.skip.val + l.limit.val < Len(S)
                     THEN l.skip.val + l.limit.val ELSE Len(S)
         IN [i \in 1..(IF last > l.skip.val THEN last - l.skip.val ELSE 0) |->
                S[l.skip.val + i]]

C22_GlobalIdOrder ==
    [][\A p \in Procs :
          (ListsOrders(p) /\ Has(slots[p].req, "orderById")
              /\ ~Has(slots[p].req, "orderByAmount"))
             => Ids(response'.data.rows)
                   = SliceOf(InOrder(slots[p].req, FALSE), slots[p])]_vars

\* Genre g is soft-deleted.
GenreDeleted(g) == g \in DOMAIN genres /\ genres[g].deleted_at # Null

\* This step of slot p's createBook writes book b: the insert or the restore.
WritesBook(p, b) ==
    /\ Answers(p)
    /\ response'.op = "createBook"
    /\ response'.status \in {200, 201}
    /\ response'.data.id = b

\* C23 as claimed: the book a createBook has written references a genre that
\* is not deleted.
C23_AsClaimed ==
    [][\A p \in Procs : \A b \in DOMAIN books' :
          WritesBook(p, b) => genres'[books'[b].genre_id].deleted_at = Null]_vars

\* C23: deleteGenre answers 404 in its first step only for a genre that is
\* unknown or deleted, and else goes on, whatever books reference the genre,
\* to set deleted_at and answer 200, leaving every Book row as it is;
\* getBooksByGenre answers 404 for a deleted genre; getBookById answers 200
\* for every non-deleted book and the first page of getAllBooks holds every
\* non-deleted book, whether or not its genre is deleted; and createBook goes
\* on to write only when it found the genre non-deleted in its first step.
C23_DanglingGenre ==
    [][\A p \in Procs :
          /\ (StepsFrom(p, "idle") /\ Answers(p) /\ response'.op = "deleteGenre")
             => /\ response'.status = 404
                /\ ~(response'.req.genre_id \in DOMAIN genres
                       /\ genres[response'.req.genre_id].deleted_at = Null)
          /\ (StepsFrom(p, "idle") /\ slots'[p].pc = "deleteGenre_update")
             => ~GenreDeleted(slots'[p].req.genre_id)
          /\ StepsFrom(p, "deleteGenre_update")
             => /\ Answers(p)
                /\ response'.status = 200
                /\ genres'[slots[p].req.genre_id].deleted_at # Null
                /\ books' = books
          /\ (StepsFrom(p, "idle") /\ Received(p) \in ListByGenreRequests
                 /\ GenreDeleted(Received(p).genre_id))
             => /\ Answers(p)
                /\ response'.op = "getBooksByGenre" => response'.status = 404
          /\ (Answers(p) /\ response'.op = "getBookById")
             => (response'.status = 200
                    <=> /\ response'.req.book_id \in DOMAIN books
                        /\ books[response'.req.book_id].deleted_at = Null)
          /\ (FindsMany(p) /\ slots[p].pc = "getAllBooks" /\ slots[p].skip.val = 0
                 /\ slots[p].limit.val >= Cardinality(DOMAIN books))
             => {RowsFound(p)[i].id : i \in DOMAIN RowsFound(p)}
                   = {b \in DOMAIN books : books[b].deleted_at = Null}
          /\ (StepsFrom(p, "idle") /\ slots'[p].pc = "createBook_find")
             => ~GenreDeleted(slots'[p].req.genre_id)
                   /\ slots'[p].req.genre_id \in DOMAIN genres]_vars

\* C23's case: a genre was deleted while a non-deleted book references it,
\* and getBookById answers 200 for that book.
C23_Witness ==
    /\ response.op = "getBookById"
    /\ response.status = 200
    /\ books[response.req.book_id].deleted_at = Null
    /\ GenreDeleted(books[response.req.book_id].genre_id)
    /\ InitGenres[books[response.req.book_id].genre_id].deleted_at = Null

\* The rows of OrderItem that this step adds.
NewItems == {orderItems'[i] : i \in (Len(orderItems) + 1)..Len(orderItems')}

\* C24: no step of createTransaction raises a book's stock, every OrderItem
\* it persists has a quantity of at least 1, and a request with an item of
\* zero or negative quantity is never answered 201 and changes no book.
C24_NoStockRaise ==
    [][\A p \in Procs :
          /\ Steps(p)
             => /\ \A b \in DOMAIN books :
                      books'[b].stock_quantity <= books[b].stock_quantity
                /\ \A it \in NewItems : it.quantity >= 1
          /\ (Answers(p) /\ response'.op = "createTransaction"
                 /\ \E i \in DOMAIN response'.req.items.elems :
                       response'.req.items.elems[i].quantity <= 0)
             => response'.status # 201 /\ books' = books]_vars

\* These line items name some book twice.
Repeats(items) == \E i, j \in DOMAIN items : i # j /\ items[i].book_id = items[j].book_id

\* The createTransaction request that slot p's first step received.
ReceivedOrder(p) ==
    /\ StepsFrom(p, "idle")
    /\ Answers(p) => response'.op = "createTransaction"
    /\ Has(Received(p), "items")
    /\ Received(p).items.array

\* The first step rejects the request for a missing book, nothing written.
RejectedForBooks(p) ==
    /\ Answers(p)
    /\ response'.status = 404
    /\ response'.message = "One or more books not found"
    /\ db' = db

\* C25 as claimed: every createTransaction request whose items name a book
\* twice is answered 404 'One or more books not found'.
C25_AsClaimed ==
    [][\A p \in Procs :
          (ReceivedOrder(p) /\ Repeats(Received(p).items.elems))
             => RejectedForBooks(p)]_vars

\* C25: a createTransaction request of an existing user whose items name a
\* book twice is answered 404 'One or more books not found' and writes
\* nothing; an order that commits adds at most one OrderItem per book and
\* lowers each book's stock by the quantity of that one item.
C25_RepeatedBook ==
    [][\A p \in Procs :
          /\ (ReceivedOrder(p) /\ Repeats(Received(p).items.elems)
                 /\ Has(Received(p), "user_id")
                 /\ Received(p).user_id \in DOMAIN users)
             => RejectedForBooks(p)
          /\ CommitsOrder(p)
             => /\ \A a, b \in NewItems : a.book_id = b.book_id => a = b
                /\ Cardinality(NewItems) = Len(orderItems') - Len(orderItems)
                /\ \A b \in DOMAIN books :
                      \/ /\ books'[b] = books[b]
                         /\ \A it \in NewItems : it.book_id = b => it.quantity = 0
                      \/ \E it \in NewItems :
                            /\ it.book_id = b
                            /\ books'[b].stock_quantity
                                  = books[b].stock_quantity - it.quantity]_vars

\* C25's case: a request naming a non-deleted book twice, each time within
\* its stock, was rejected for the count of books found.
C25_Witness ==
    /\ response.op = "createTransaction"
    /\ response.status = 404
    /\ response.message = "One or more books not found"
    /\ Len(response.req.items.elems) = 2
    /\ \A i \in 1..2 :
          LET it == response.req.items.elems[i]
          IN /\ it.book_id = response.req.items.elems[1].book_id
             /\ books[it.book_id].deleted_at = Null
             /\ it.quantity >= 1
             /\ it.quantity <= books[it.book_id].stock_quantity

\* C26: an order commits only for books that are not soft-deleted when it
\* commits: a createTransaction that runs along a deleteBook of one of its
\* books either answers 404 with nothing written or commits before
\* deleted_at is set.
C26_NoOrderForDeletedBook ==
    [][\A p \in Procs :
          CommitsOrder(p)
             => \A it \in NewItems :
                   /\ books[it.book_id].deleted_at = Null
                   /\ books'[it.book_id].deleted_at = Null]_vars

=============================================================================
